---- MODULE Spec2Model ----
(***************************************************************************)
(* State-machine model of the NoLongerEvil self-hosted server's            *)
(* SubscriptionManager (services/subscription_manager.py).                 *)
(*                                                                         *)
(* Every public coroutine of the manager runs its whole body inside        *)
(* `async with self._lock` and awaits nothing while it holds the lock      *)
(* (put_nowait, set_result and cancel do not suspend), so each call is one *)
(* atomic action of the model.                                             *)
(***************************************************************************)
EXTENDS Integers, Sequences, FiniteSets, TLC

\* ------------------------------------------------------------ bounds ----
\* uuid.uuid4() values minted in one run (ids are never reused)
MaxUuid == 3
\* object revisions carried by changed objects: 1..MaxRev
MaxRev == 2
\* last-known revisions a subscriber may declare: 1..MaxWatchedRev
MaxWatchedRev == 1
\* number of objects in one notify batch
MaxBatch == 1
\* batches pending on all notify queues together (each asyncio.Queue is unbounded)
MaxPending == 2
\* longest list handed to notify_subscribers_with_objects
MaxWireBatch == 2
\* largest object_timestamp
MaxTimestamp == 2
\* longest list handed to notify_subscribers where the order of a list matters
MaxFutureBatch == 2
\* largest revision a caller upserts
MaxUpsertRev == 3
\* latest updated_at, in half milliseconds since the epoch
MaxUpdatedAt == 4
\* latest reading of the clock, in milliseconds since the epoch
MaxNowMs == 7
\* largest value tried for suspend_time_max (the smallest is 0)
MaxSuspendInput == 330
MaxLoops == 3
MaxJoining == 2
MaxAwaiting == 2
FrameHorizon == 2
MaxSerialList == 2
MaxTopicLen == 9
MaxSegmentLen == 2
\* readings of time.monotonic(), in whole seconds: 0..ClockHorizon
ClockHorizon == 7

\* settings.max_subscriptions_per_device as configured (the default is 100)
max_subscriptions_per_device == 2

\* readings of datetime.now(), in whole seconds: 0..WallHorizon
WallHorizon == 6
\* the same where subscriptions come and go beside the watchdog
HeartbeatHorizon == 4
\* the same under the event loop's scheduling
LiveHorizon == 5
\* DeviceAvailability(timeout_seconds=...) as configured (the default is 300)
timeout_seconds == 2
\* DeviceAvailability(check_interval_seconds=...) as configured (the default is 30)
check_interval_seconds == 1

\* ------------------------------------------------- program constants ----
RESUBSCRIBE_WINDOW_SECONDS == 5
\* Field(default=60, ge=30, le=300) of Settings.suspend_time_max
suspend_time_max_default == 60
suspend_time_max_ge == 30
suspend_time_max_le == 300

Serials == {"AAA", "BBB"}
Callers == {"task-1", "task-2"}
ObjectKeys == {"device.AAA"}
SessionIds == {"session-1"}
None == "None"
HTTPTooManyRequests == "HTTP429"

VARIABLES
    long_poll_subscriptions,  \* serial -> set of ids of LongPollSubscription
    subscriptions,            \* serial -> set of session ids of PendingSubscription
    last_subscription_end,    \* serial -> time.monotonic() of the last removal
    heap,                     \* every subscription object ever created, by uuid
    now,                      \* time.monotonic()
    ended_at,                 \* history: uuid -> time its long-poll subscription was removed
    last,                     \* history: the call that produced this state, what it
                              \* returned or raised (ret) and the id or count returned,
                              \* or the number of events sent or devices checked (n)
    devices,                  \* DeviceAvailability._devices: the DeviceStatus records,
                              \* in insertion order
    integration_manager,      \* DeviceAvailability._integration_manager
    running,                  \* DeviceAvailability._running
    task,                     \* DeviceAvailability._task and where _monitor_loop stands;
                              \* where start() and stop() overlap, which of `loops` it is
    todo,                     \* serials of the round's list(self._devices.items()) not yet checked
    stale_threshold,          \* the round's `now - self._timeout`
    wake_at,                  \* when the loop's asyncio.sleep returns
    wall,                     \* datetime.now(), in whole seconds
    events,                   \* history: serial -> the on_device_connected and
                              \* on_device_disconnected calls made, in order
    locked,                   \* SubscriptionManager._lock: asyncio.Lock._locked
    waiters,                  \* SubscriptionManager._lock: asyncio.Lock._waiters
    call,                     \* caller -> the manager coroutine it is in and where it
                              \* stands with the lock
    arg,                      \* the argument a function was called with
    result,                   \* <<what it returned>>, empty before it returns
    states,                   \* table states: (serial, object_key) -> row
    entryKeys,                \* table entryKeys: code -> row
    published,                \* history: the objects handed to the Change Bus
    loops,                    \* the tasks start() created, in order: where each
                              \* _monitor_loop stands
    joining,                  \* the tasks the suspended stop() calls await
    awaiting                  \* serial -> the mark_device_seen calls suspended in
                              \* on_device_connected

vars == <<long_poll_subscriptions, subscriptions, last_subscription_end, heap, now,
          ended_at, last, devices, integration_manager, running, task, todo,
          stale_threshold, wake_at, wall, events, locked, waiters, call,
          arg, result, states, entryKeys, published, loops, joining, awaiting>>
manager == <<long_poll_subscriptions, subscriptions, last_subscription_end, heap>>
watchdog == <<devices, integration_manager, running, task, todo, stale_threshold,
              wake_at, wall, events>>
locking == <<locked, waiters, call>>
pure == <<arg, result>>
store == <<states, entryKeys, published>>
suspended == <<loops, joining, awaiting>>

\* ------------------------------------------------------ dict helpers ----
Get(d, k, default) == IF k \in DOMAIN d THEN d[k] ELSE default
Put(d, k, v) == [x \in (DOMAIN d) \cup {k} |-> IF x = k THEN v ELSE d[x]]
Del(d, k) == [x \in (DOMAIN d) \ {k} |-> d[x]]
EmptyDict == [x \in {} |-> {}]

\* ------------------------------------------------------------ inputs ----
DeviceObjects == [object_key : ObjectKeys, object_revision : 1..MaxRev]
SeqsUpTo(S, n) == UNION {[1..k -> S] : k \in 0..n}
\* lists of changed objects handed to notify (the empty list included)
Batches == SeqsUpTo(DeviceObjects, MaxBatch)
\* the lists the state service hands over: notify_subscribers_with_objects,
\* notify_subscribers_with_dicts and notify_all_subscribers return before
\* notifying when the list is empty
ChangedBatches == Batches \ {<<>>}
\* subscribed_keys: object_key -> last known revision
WatchedMaps == UNION {[K -> 1..MaxWatchedRev] : K \in SUBSET ObjectKeys}

Uuids == 1..Len(heap)
IsLongPoll(id) == id \in Uuids /\ heap[id].kind = "long_poll"
IsPending(id) == id \in Uuids /\ heap[id].kind = "future"

\* ---------------------------------------------------- the dataclasses ----
LongPollSubscription(id, serial, session_id, subscribed_keys) ==
    [kind |-> "long_poll", id |-> id, serial |-> serial, session_id |-> session_id,
     subscribed_keys |-> subscribed_keys, notify_queue |-> <<>>]

PendingSubscription(serial, session_id, subscribed_keys) ==
    [kind |-> "future", serial |-> serial, session_id |-> session_id,
     subscribed_keys |-> subscribed_keys,
     future |-> [state |-> "pending", result |-> <<>>]]

FutureDone(f) == f.state # "pending"

\* a caller that is in no manager coroutine
Idle == [op |-> "idle", pc |-> "idle", serial |-> None, id |-> 0,
         objs |-> None, stage |-> 0, total |-> 0]

\* the services as constructed, no function called yet
Constructed ==
    /\ long_poll_subscriptions = EmptyDict
    /\ subscriptions = EmptyDict
    /\ last_subscription_end = EmptyDict
    /\ heap = <<>>
    /\ now = 0
    /\ ended_at = EmptyDict
    /\ last = [op |-> "init", ret |-> None, n |-> 0]
    /\ devices = <<>>
    /\ integration_manager = None
    /\ running = FALSE
    /\ task = None
    /\ todo = <<>>
    /\ stale_threshold = 0
    /\ wake_at = 0
    /\ wall = 0
    /\ events = [serial \in Serials |-> <<>>]
    /\ locked = FALSE
    /\ waiters = <<>>
    /\ call = [t \in Callers |-> Idle]
    /\ states = EmptyDict
    /\ entryKeys = EmptyDict
    /\ published = <<>>
    /\ loops = <<>>
    /\ joining = <<>>
    /\ awaiting = [serial \in Serials |-> 0]

Init ==
    /\ Constructed
    /\ arg = None
    /\ result = <<>>

\* ------------------------------------------------------- self._lock ----
\* asyncio.Lock.acquire returns without waiting when the lock is free and
\* nobody waits for it
CanAcquire == ~locked /\ waiters = <<>>

\* _notify_all: `if device_objects:`, the list notify_subscribers_with_dicts
\* hands over being empty
NotifiesFutures(c) == c.objs = "DeviceObject"

\* _notify_all awaits notify_long_poll_subscribers, whose `async with` block
\* has ended when it returns, before it awaits notify_subscribers
ReleasesLate(c) == FALSE
ReleasesFirst(c) == TRUE

\* the end of an `async with self._lock` block, and the caller's next move. A
\* coroutine that is called while nobody else is inside the manager acquires
\* the free lock, runs its block and releases within one step.
LockExit ==
    IF ~locked
    THEN UNCHANGED locking
    ELSE LET t == CHOOSE c \in Callers : call[c].pc = "holding"
             total_notified == call[t].total + last'.n
         IN  IF call[t].op = "notify_all_subscribers" /\ call[t].stage = 1
                /\ NotifiesFutures(call[t])
             THEN IF ReleasesFirst(call[t]) /\ waiters = <<>>
                  THEN /\ locked' = TRUE
                       /\ waiters' = waiters
                       /\ call' = [call EXCEPT ![t].stage = 2,
                                               ![t].total = total_notified]
                  ELSE /\ locked' = ~ReleasesFirst(call[t])
                       /\ waiters' = Append(waiters, t)
                       /\ call' = [call EXCEPT ![t].stage = 2, ![t].pc = "waiting",
                                               ![t].total = total_notified]
             ELSE /\ locked' = FALSE
                  /\ waiters' = waiters
                  /\ call' = [call EXCEPT ![t].pc = "returned",
                                          ![t].total =
                                              IF call[t].op = "notify_all_subscribers"
                                              THEN total_notified ELSE 0]

\* `len(device_subs) >= settings.max_subscriptions_per_device`
AtCapacityOffByOne(device_subs) == Cardinality(device_subs) > max_subscriptions_per_device
AtCapacity(device_subs) == Cardinality(device_subs) >= max_subscriptions_per_device

\* ------------------------------------------- long-poll subscriptions ----
add_long_poll_subscription(serial, session_id, subscribed_keys) ==
    LET device_subs == Get(long_poll_subscriptions, serial, {})
        id == Len(heap) + 1
    IN  IF AtCapacity(device_subs)
        THEN /\ UNCHANGED <<manager, now, ended_at>>
             /\ UNCHANGED <<watchdog, pure, store, suspended>>
             /\ last' = [op |-> "add_long_poll_subscription", ret |-> None, n |-> 0]
             /\ LockExit
        ELSE /\ id <= MaxUuid
             /\ heap' = Append(heap, LongPollSubscription(id, serial, session_id, subscribed_keys))
             /\ long_poll_subscriptions' =
                    Put(long_poll_subscriptions, serial, device_subs \cup {id})
             /\ UNCHANGED <<subscriptions, last_subscription_end, now, ended_at>>
             /\ UNCHANGED <<watchdog, pure, store, suspended>>
             /\ last' = [op |-> "add_long_poll_subscription", ret |-> "subscription", n |-> id]
             /\ LockExit

RemoveFromRegistryKeepsTable(registry, serial, id) ==
    IF serial \in DOMAIN registry
    THEN Put(registry, serial, registry[serial] \ {id})
    ELSE registry

RemoveFromRegistryBySession(registry, serial, id) ==
    LET device_subs == {x \in Get(registry, serial, {}) :
                           heap[x].session_id # heap[id].session_id}
    IN  IF device_subs = {} /\ serial \in DOMAIN registry
        THEN Del(registry, serial)
        ELSE IF serial \in DOMAIN registry THEN Put(registry, serial, device_subs)
             ELSE registry

\* the dict left by `del device_subs[subscription.id]` and the trailing
\* `if not device_subs and serial in self._long_poll_subscriptions: del ...`
RemoveFromRegistry(registry, serial, id) ==
    LET device_subs == Get(registry, serial, {}) \ {id}
    IN  IF device_subs = {} /\ serial \in DOMAIN registry
        THEN Del(registry, serial)
        ELSE IF serial \in DOMAIN registry THEN Put(registry, serial, device_subs)
             ELSE registry

LastEndOfEverySerial(serial, id) ==
    IF id \in Get(long_poll_subscriptions, serial, {})
    THEN [x \in (DOMAIN long_poll_subscriptions) \cup (DOMAIN last_subscription_end) |-> now]
    ELSE last_subscription_end
LastEndAlways(serial, id) == Put(last_subscription_end, serial, now)
LastEndAfterRemove(serial, id) ==
    IF id \in Get(long_poll_subscriptions, serial, {})
    THEN Put(last_subscription_end, serial, now)
    ELSE last_subscription_end

remove_long_poll_subscription(id) ==
    /\ IsLongPoll(id)
    /\ LET serial == heap[id].serial
       IN  /\ long_poll_subscriptions' = RemoveFromRegistry(long_poll_subscriptions, serial, id)
           /\ last_subscription_end' = LastEndAfterRemove(serial, id)
           /\ ended_at' = IF id \in Get(long_poll_subscriptions, serial, {})
                          THEN Put(ended_at, id, now) ELSE ended_at
           /\ UNCHANGED <<subscriptions, heap, now>>
           /\ UNCHANGED <<watchdog, pure, store, suspended>>
           /\ last' = [op |-> "remove_long_poll_subscription", ret |-> None, n |-> 0]
           /\ LockExit

RECURSIVE SumQueues(_)
SumQueues(n) ==
    IF n = 0 THEN 0
    ELSE (IF heap[n].kind = "long_poll" THEN Len(heap[n].notify_queue) ELSE 0)
         + SumQueues(n - 1)
\* batches sitting on the notify queues of all subscriptions, removed ones included
TotalPending == SumQueues(Len(heap))

\* sub.notify_queue.put_nowait(changed_objects) on an unbounded asyncio.Queue
PutNowaitSingleSlot(queue, changed_objects) ==
    IF queue = <<>> THEN <<changed_objects>> ELSE queue
PutNowait(queue, changed_objects) == Append(queue, changed_objects)

\* `device_subs = self._long_poll_subscriptions.get(serial, {})`, the subscriptions
\* the loop of notify_long_poll_subscribers visits
LongPollTargetsAnySerial(serial) ==
    UNION {long_poll_subscriptions[s] : s \in DOMAIN long_poll_subscriptions}
LongPollTargetsEverMinted(serial) ==
    {id \in Uuids : heap[id].kind = "long_poll" /\ heap[id].serial = serial}
LongPollTargets(serial) == Get(long_poll_subscriptions, serial, {})

notify_long_poll_subscribers(serial, changed_objects) ==
    LET device_subs == LongPollTargets(serial)
    IN  /\ TotalPending + Cardinality(device_subs) <= MaxPending
        /\ heap' = [id \in DOMAIN heap |->
                       IF id \in device_subs
                       THEN [heap[id] EXCEPT !.notify_queue = PutNowait(@, changed_objects)]
                       ELSE heap[id]]
        /\ UNCHANGED <<long_poll_subscriptions, subscriptions, last_subscription_end, now, ended_at>>
        /\ UNCHANGED <<watchdog, pure, store, suspended>>
        /\ last' = [op |-> "notify_long_poll_subscribers", ret |-> "notified",
                    n |-> Cardinality(device_subs)]
        /\ LockExit

\* ---------------------------------------- future-based subscriptions ----
add_subscription(serial, subscribed_keys) ==
    LET device_subs == Get(subscriptions, serial, {})
        session_id == Len(heap) + 1
    IN  IF AtCapacity(device_subs)
        THEN /\ UNCHANGED <<manager, now, ended_at>>
             /\ UNCHANGED <<watchdog, pure, store, suspended>>
             /\ last' = [op |-> "add_subscription", ret |-> HTTPTooManyRequests, n |-> 0]
             /\ LockExit
        ELSE /\ session_id <= MaxUuid
             /\ heap' = Append(heap, PendingSubscription(serial, session_id, subscribed_keys))
             /\ subscriptions' = Put(subscriptions, serial, device_subs \cup {session_id})
             /\ UNCHANGED <<long_poll_subscriptions, last_subscription_end, now, ended_at>>
             /\ UNCHANGED <<watchdog, pure, store, suspended>>
             /\ last' = [op |-> "add_subscription", ret |-> "session_id", n |-> session_id]
             /\ LockExit

CancelNever(f) == f
\* sub.future.cancel() when the future is not done
CancelIfPending(f) == IF FutureDone(f) THEN f ELSE [f EXCEPT !.state = "cancelled"]

remove_subscription(serial, session_id) ==
    /\ IF serial \in DOMAIN subscriptions /\ session_id \in subscriptions[serial]
       THEN /\ heap' = [heap EXCEPT ![session_id].future = CancelIfPending(@)]
            /\ subscriptions' = RemoveFromRegistry(subscriptions, serial, session_id)
       ELSE UNCHANGED <<heap, subscriptions>>
    /\ UNCHANGED <<long_poll_subscriptions, last_subscription_end, now, ended_at>>
    /\ UNCHANGED <<watchdog, pure, store, suspended>>
    /\ last' = [op |-> "remove_subscription", ret |-> None, n |-> 0]
    /\ LockExit

\* the inner loop of notify_subscribers: the objects of the batch whose key is
\* watched and whose revision is greater than the last known one, in batch order
RelevantUpdates(subscribed_keys, updated_objects) ==
    LET Relevant(obj) ==
            /\ obj.object_key \in DOMAIN subscribed_keys
            /\ obj.object_revision > subscribed_keys[obj.object_key]
    IN  SelectSeq(updated_objects, Relevant)

\* `if relevant_updates and not sub.future.done()`
Resolves(sub, updated_objects) ==
    /\ RelevantUpdates(sub.subscribed_keys, updated_objects) # <<>>
    /\ ~FutureDone(sub.future)

RemainingKeepsAll(device_subs, sessions_to_remove) == device_subs
\* `for session_id in sessions_to_remove: del device_subs[session_id]`
Remaining(device_subs, sessions_to_remove) == device_subs \ sessions_to_remove

notify_subscribers(serial, updated_objects) ==
    LET device_subs == Get(subscriptions, serial, {})
        sessions_to_remove == {id \in device_subs : Resolves(heap[id], updated_objects)}
        remaining == Remaining(device_subs, sessions_to_remove)
    IN  /\ heap' = [id \in DOMAIN heap |->
                       IF id \in sessions_to_remove
                       THEN [heap[id] EXCEPT !.future =
                               [state |-> "done",
                                result |-> RelevantUpdates(heap[id].subscribed_keys,
                                                           updated_objects)]]
                       ELSE heap[id]]
        /\ subscriptions' =
              IF remaining = {} /\ serial \in DOMAIN subscriptions
              THEN Del(subscriptions, serial)
              ELSE IF serial \in DOMAIN subscriptions
                   THEN Put(subscriptions, serial, remaining)
                   ELSE subscriptions
        /\ UNCHANGED <<long_poll_subscriptions, last_subscription_end, now, ended_at>>
        /\ UNCHANGED <<watchdog, pure, store, suspended>>
        /\ last' = [op |-> "notify_subscribers", ret |-> "notified",
                    n |-> Cardinality(sessions_to_remove)]
        /\ LockExit

\* ------------------------------------------------------------ reads ----
get_subscription_count(serial) ==
    Cardinality(Get(subscriptions, serial, {})) +
    Cardinality(Get(long_poll_subscriptions, serial, {}))

\* `sum(len(subs) for subs in registry.values())`
RECURSIVE SumLen(_, _)
SumLen(registry, serials) ==
    IF serials = {} THEN 0
    ELSE LET serial == CHOOSE x \in serials : TRUE
         IN  Cardinality(registry[serial]) + SumLen(registry, serials \ {serial})

get_total_subscription_count ==
    SumLen(subscriptions, DOMAIN subscriptions) +
    SumLen(long_poll_subscriptions, DOMAIN long_poll_subscriptions)

get_stats ==
    [total_subscriptions |-> get_total_subscription_count,
     future_subscriptions |-> SumLen(subscriptions, DOMAIN subscriptions),
     long_poll_subscriptions |-> SumLen(long_poll_subscriptions,
                                        DOMAIN long_poll_subscriptions),
     devices_with_subscriptions |->
         Cardinality((DOMAIN subscriptions) \cup (DOMAIN long_poll_subscriptions))]

is_resubscribe_inclusive(serial) ==
    IF serial \notin DOMAIN last_subscription_end
    THEN FALSE
    ELSE (now - last_subscription_end[serial]) <= RESUBSCRIBE_WINDOW_SECONDS
is_resubscribe(serial) ==
    IF serial \notin DOMAIN last_subscription_end
    THEN FALSE
    ELSE (now - last_subscription_end[serial]) < RESUBSCRIBE_WINDOW_SECONDS

\* ------------------------------------------------------------ clock ----
Tick(limit) ==
    /\ now < limit
    /\ now' = now + 1
    /\ UNCHANGED <<manager, ended_at>>
    /\ UNCHANGED <<watchdog, locking, pure, store, suspended>>
    /\ last' = [op |-> "tick", ret |-> None, n |-> 0]

\* =================================================== device availability ====
\* SubscriptionManager.has_active_subscription
has_active_subscription(serial) ==
    LET has_future == serial \in DOMAIN subscriptions /\ Cardinality(subscriptions[serial]) > 0
        has_long_poll ==
            serial \in DOMAIN long_poll_subscriptions
            /\ Cardinality(long_poll_subscriptions[serial]) > 0
    IN  has_future \/ has_long_poll

DeviceStatus(serial, last_seen) ==
    [serial |-> serial, last_seen |-> last_seen, is_available |-> TRUE]

Tracked(devs) == {devs[i].serial : i \in DOMAIN devs}
IndexOf(devs, serial) == CHOOSE i \in DOMAIN devs : devs[i].serial = serial
StatusOf(devs, serial) == devs[IndexOf(devs, serial)]
SerialsOf(devs) == [i \in DOMAIN devs |-> devs[i].serial]

\* `if self._integration_manager: await self._integration_manager.on_device_...`
\* st is the pair (devices, events) a coroutine is working on
Notify(st, serial, event) ==
    IF integration_manager # None
    THEN [st EXCEPT !.events[serial] = Append(@, event)]
    ELSE st

\* whether IntegrationManager.on_device_connected / on_device_disconnected
\* raises when an integration it dispatches to raises: the fan-out is
\* fire-and-forget, a failure is logged and counted and never surfaced
SurfacesFailure(im) == im = "failing"
Surfaces(im) == FALSE

\* `if not was_available:` in mark_device_seen
ReconnectsAlways(status) == TRUE
Reconnects(status) == ~status.is_available

SeenKeepsFlag(st, serial) ==
    IF serial \notin Tracked(st.devices)
    THEN Notify([st EXCEPT !.devices = Append(@, DeviceStatus(serial, wall))],
                serial, "connected")
    ELSE LET i == IndexOf(st.devices, serial)
             seen == [st EXCEPT !.devices[i].last_seen = wall]
         IN  IF Reconnects(st.devices[i])
             THEN Notify(seen, serial, "connected")
             ELSE seen

SeenAfterAwait(st, serial) ==
    IF serial \notin Tracked(st.devices)
    THEN Notify(st, serial, "connected")
    ELSE LET i == IndexOf(st.devices, serial)
         IN  IF Reconnects(st.devices[i])
             THEN Notify(st, serial, "connected")
             ELSE [st EXCEPT !.devices[i].last_seen = wall]

\* the body of mark_device_seen(serial) at time datetime.now() = wall
Seen(st, serial) ==
    IF serial \notin Tracked(st.devices)
    THEN Notify([st EXCEPT !.devices = Append(@, DeviceStatus(serial, wall))],
                serial, "connected")
    ELSE LET i == IndexOf(st.devices, serial)
             seen == [st EXCEPT !.devices[i].last_seen = wall]
         IN  IF Reconnects(st.devices[i])
             THEN Notify([seen EXCEPT !.devices[i].is_available = TRUE], serial, "connected")
             ELSE seen

\* `if self._devices[serial].is_available:` in _mark_device_unavailable
Disconnects(status) == status.is_available

UnavailableKeepsFlag(st, serial) == Notify(st, serial, "disconnected")

\* the body of _mark_device_unavailable(serial)
Unavailable(st, serial) ==
    IF serial \notin Tracked(st.devices)
    THEN st
    ELSE LET i == IndexOf(st.devices, serial)
         IN  IF Disconnects(st.devices[i])
             THEN Notify([st EXCEPT !.devices[i].is_available = FALSE],
                         serial, "disconnected")
             ELSE st

\* `status.is_available and status.last_seen < stale_threshold`
TimedOutReversed(status, threshold) == status.is_available /\ status.last_seen > threshold
TimedOutInclusive(status, threshold) == status.is_available /\ status.last_seen <= threshold
TimedOut(status, threshold) == status.is_available /\ status.last_seen < threshold

\* one iteration of the for loop of _check_devices
CheckOne(st, serial, threshold) ==
    IF has_active_subscription(serial)
    THEN Seen(st, serial)
    ELSE IF TimedOut(StatusOf(st.devices, serial), threshold)
         THEN Unavailable(st, serial)
         ELSE st

CheckDevicesFirstOnly(st, pending, threshold) ==
    IF pending = <<>>
    THEN [st |-> st, todo |-> <<>>, suspended |-> FALSE]
    ELSE [st |-> CheckOne(st, Head(pending), threshold), todo |-> <<>>,
          suspended |-> FALSE]

\* _check_devices from the serials in `pending` on, up to its next suspension:
\* the coroutine is suspended only inside an integration-manager call it awaits
RECURSIVE CheckDevices(_, _, _)
CheckDevices(st, pending, threshold) ==
    IF pending = <<>>
    THEN [st |-> st, todo |-> <<>>, suspended |-> FALSE]
    ELSE LET after == CheckOne(st, Head(pending), threshold)
         IN  IF after.events # st.events
             THEN [st |-> after, todo |-> Tail(pending), suspended |-> TRUE]
             ELSE CheckDevices(after, Tail(pending), threshold)

\* where _monitor_loop stands after r: inside the round, or in
\* `await asyncio.sleep(self._check_interval)`. The locals of a coroutine that
\* has returned, and the deadline of a sleep that is over, are dropped.
RunRound(r, threshold) ==
    /\ devices' = r.st.devices
    /\ events' = r.st.events
    /\ todo' = r.todo
    /\ IF r.suspended
       THEN task' = "checking" /\ stale_threshold' = threshold /\ wake_at' = 0
       ELSE task' = "sleeping" /\ stale_threshold' = 0
            /\ wake_at' = wall + check_interval_seconds

set_integration_manager ==
    /\ integration_manager' = "manager"
    /\ UNCHANGED <<manager, locking, suspended, pure, store, now, ended_at, devices, running, task, todo, stale_threshold,
                   wake_at, wall, events>>
    /\ last' = [op |-> "set_integration_manager", ret |-> None, n |-> 0]

RECURSIVE InitializeFrom(_, _)
InitializeFromOverwriting(devs, serials) ==
    LET Unknown(serial) == serial \notin Tracked(devs)
        unknown == SelectSeq(serials, Unknown)
    IN  [i \in DOMAIN devs |->
            IF \E j \in DOMAIN serials : serials[j] = devs[i].serial
            THEN DeviceStatus(devs[i].serial, wall)
            ELSE devs[i]]
        \o [i \in DOMAIN unknown |-> DeviceStatus(unknown[i], wall)]
\* the loop of initialize_from_serials over the list, at datetime.now() = wall
InitializeFrom(devs, serials) ==
    IF serials = <<>> THEN devs
    ELSE InitializeFrom(IF Head(serials) \in Tracked(devs) THEN devs
                        ELSE Append(devs, DeviceStatus(Head(serials), wall)),
                        Tail(serials))

initialize_from_serials(serials) ==
    /\ devices' = InitializeFrom(devices, serials)
    /\ UNCHANGED <<manager, locking, suspended, pure, store, now, ended_at, integration_manager, running, task, todo,
                   stale_threshold, wake_at, wall, events>>
    /\ last' = [op |-> "initialize_from_serials", ret |-> None, n |-> 0]

\* start() and stop() are called by the application's start-up and shutdown,
\* one after the other: a call is made only when the previous one has returned
start ==
    /\ task \notin {"cancelling", "done"}
    /\ IF running
       THEN UNCHANGED <<running, task>>
       ELSE running' = TRUE /\ task' = "created"
    /\ UNCHANGED <<manager, locking, suspended, pure, store, now, ended_at, devices, integration_manager, todo,
                   stale_threshold, wake_at, wall, events>>
    /\ last' = [op |-> "start", ret |-> None, n |-> 0]

\* `if self._task: self._task.cancel()`
CancelForgotten(t) == t
Cancel(t) == IF t # None THEN "cancelling" ELSE None

\* stop() up to `await self._task`; without a task it returns at once
stop ==
    /\ task \notin {"cancelling", "done"}
    /\ running' = FALSE
    /\ task' = Cancel(task)
    /\ UNCHANGED <<manager, locking, suspended, pure, store, now, ended_at, devices, integration_manager, todo,
                   stale_threshold, wake_at, wall, events>>
    /\ last' = [op |-> IF task # None THEN "stop_cancel" ELSE "stop", ret |-> None, n |-> 0]

\* the cancelled task: CancelledError is raised at the await it is suspended in
\* (or it never starts), `except asyncio.CancelledError: break` ends the loop
monitor_loop_cancelled ==
    /\ task = "cancelling"
    /\ task' = "done"
    /\ todo' = <<>> /\ stale_threshold' = 0 /\ wake_at' = 0
    /\ UNCHANGED <<manager, locking, suspended, pure, store, now, ended_at, devices, integration_manager, running,
                   wall, events>>
    /\ last' = [op |-> "monitor_loop_cancelled", ret |-> None, n |-> 0]

\* stop() from the return of `await self._task` on
stop_return ==
    /\ task = "done"
    /\ task' = None
    /\ UNCHANGED <<manager, locking, suspended, pure, store, now, ended_at, devices, integration_manager, running, todo,
                   stale_threshold, wake_at, wall, events>>
    /\ last' = [op |-> "stop", ret |-> None, n |-> 1]

\* _monitor_loop at `while self._running`: when the task first runs and each
\* time its sleep returns
monitor_loop ==
    /\ task = "created" \/ (task = "sleeping" /\ wall >= wake_at)
    /\ IF running
       THEN RunRound(CheckDevices([devices |-> devices, events |-> events],
                                  SerialsOf(devices), wall - timeout_seconds),
                     wall - timeout_seconds)
       ELSE /\ task' = "done" /\ wake_at' = 0
            /\ UNCHANGED <<devices, events, todo, stale_threshold>>
    /\ UNCHANGED <<manager, locking, suspended, pure, store, now, ended_at, integration_manager, running, wall>>
    /\ last' = [op |-> "monitor_loop", ret |-> None,
                n |-> IF running THEN Len(devices) - Len(todo') ELSE 0]

\* _check_devices resumed after the integration-manager call it awaited; an
\* exception raised by that call leaves _check_devices and is caught by
\* `except Exception` in _monitor_loop, which logs it and sleeps
check_devices ==
    /\ task = "checking"
    /\ IF Surfaces(integration_manager)
       THEN /\ task' = "sleeping" /\ todo' = <<>> /\ stale_threshold' = 0
            /\ wake_at' = wall + check_interval_seconds
            /\ UNCHANGED <<devices, events>>
       ELSE RunRound(CheckDevices([devices |-> devices, events |-> events], todo,
                                  stale_threshold),
                     stale_threshold)
    /\ UNCHANGED <<manager, locking, suspended, pure, store, now, ended_at, integration_manager, running, wall>>
    /\ last' = [op |-> "check_devices",
                ret |-> IF Surfaces(integration_manager) THEN "Exception" ELSE None,
                n |-> Len(todo) - Len(todo')]

\* mark_device_seen(serial) as the device transport calls it
mark_device_seen(serial) ==
    LET after == Seen([devices |-> devices, events |-> events], serial)
    IN  /\ devices' = after.devices
        /\ events' = after.events
        /\ UNCHANGED <<manager, locking, suspended, pure, store, now, ended_at, integration_manager, running, task, todo,
                       stale_threshold, wake_at, wall>>
        /\ last' = [op |-> "mark_device_seen",
                    ret |-> IF after.events # events /\ Surfaces(integration_manager)
                            THEN "Exception" ELSE None,
                    n |-> Len(after.events[serial]) - Len(events[serial])]

\* an integration starts to raise on every event it is told of
integration_throws ==
    /\ integration_manager = "manager"
    /\ integration_manager' = "failing"
    /\ UNCHANGED <<manager, locking, suspended, pure, store, now, ended_at, devices, running, task, todo,
                   stale_threshold, wake_at, wall, events>>
    /\ last' = [op |-> "integration_throws", ret |-> None, n |-> 0]

\* datetime.now() advances
Advance(limit) ==
    /\ wall < limit
    /\ wall' = wall + 1
    /\ UNCHANGED <<manager, locking, suspended, pure, store, now, ended_at, devices, integration_manager, running, task,
                   todo, stale_threshold, wake_at, events>>
    /\ last' = [op |-> "advance", ret |-> None, n |-> 0]

Next ==
    \/ \E s \in Serials, sid \in SessionIds, w \in WatchedMaps :
          add_long_poll_subscription(s, sid, w)
    \/ \E id \in 1..MaxUuid : remove_long_poll_subscription(id)
    \/ \E s \in Serials, b \in ChangedBatches : notify_long_poll_subscribers(s, b)
    \/ \E s \in Serials, w \in WatchedMaps : add_subscription(s, w)
    \/ \E s \in Serials, id \in 1..MaxUuid : remove_subscription(s, id)
    \/ \E s \in Serials, b \in ChangedBatches : notify_subscribers(s, b)

Spec == Init /\ [][Next]_vars

\* The re-subscribe heuristic reads only the registry of long-poll subscriptions,
\* the last-ended record and the clock.
NextClock ==
    \/ \E s \in Serials, sid \in SessionIds, w \in WatchedMaps :
          add_long_poll_subscription(s, sid, w)
    \/ \E id \in 1..MaxUuid : remove_long_poll_subscription(id)
    \/ Tick(ClockHorizon)

SpecClock == Init /\ [][NextClock]_vars

\* The long-poll path on its own, called directly with any list of changed
\* objects: the three coroutines read and write only the long-poll registry,
\* the subscription objects and the last-ended record.
NextLongPoll ==
    \/ \E s \in Serials, sid \in SessionIds, w \in WatchedMaps :
          add_long_poll_subscription(s, sid, w)
    \/ \E id \in 1..MaxUuid : remove_long_poll_subscription(id)
    \/ \E s \in Serials, b \in Batches : notify_long_poll_subscribers(s, b)

SpecLongPoll == Init /\ [][NextLongPoll]_vars

\* the watcher with an integration that may fail
NextIntegration ==
    \/ set_integration_manager
    \/ integration_throws
    \/ start
    \/ monitor_loop
    \/ check_devices
    \/ \E s \in Serials : mark_device_seen(s)
    \/ Advance(WallHorizon)

SpecIntegration == Init /\ [][NextIntegration]_vars

\* ------------------------------------- callers of the manager ----
\* the batch the state service hands to notify_all_subscribers: one changed
\* object, as DeviceObject or as the dict formatted from it
Changed == <<[object_key |-> "device.AAA", object_revision |-> MaxRev]>>
Watched == [k \in {"device.AAA"} |-> 1]

InFlight(ops, stages) ==
    {t \in Callers : /\ call[t].pc \in {"waiting", "holding"}
                     /\ call[t].op \in ops
                     /\ call[t].stage \in stages}

\* the most queue entries one notify_long_poll_subscribers of `serial` can add
\* once `adding` registrations that are under way have completed
WorstCase(serial, adding) ==
    LET registered == Cardinality(Get(long_poll_subscriptions, serial, {}))
    IN  IF registered + adding < max_subscriptions_per_device
        THEN registered + adding ELSE max_subscriptions_per_device

\* a call is only begun when the model's bounds leave room for it to finish
Affordable(op) ==
    LET adding == Cardinality(InFlight({"add_long_poll_subscription"}, {1}))
        minting == Cardinality(InFlight({"add_long_poll_subscription",
                                         "add_subscription"}, {1}))
        notifying == Cardinality(InFlight({"notify_all_subscribers"}, {1}))
    IN  CASE op = "add_long_poll_subscription" ->
                /\ Len(heap) + minting < MaxUuid
                /\ TotalPending + notifying * WorstCase("AAA", adding + 1) <= MaxPending
          [] op = "add_subscription" -> Len(heap) + minting < MaxUuid
          [] op = "notify_all_subscribers" ->
                TotalPending + (notifying + 1) * WorstCase("AAA", adding) <= MaxPending
          [] OTHER -> TRUE

Calls ==
    [op : {"add_long_poll_subscription", "add_subscription"}, pc : {"holding"},
     serial : {"AAA"}, id : {0}, objs : {None}, stage : {1}, total : {0}]
    \cup
    [op : {"remove_long_poll_subscription"}, pc : {"holding"},
     serial : {"AAA"}, id : 1..MaxUuid, objs : {None}, stage : {1}, total : {0}]
    \cup
    [op : {"notify_all_subscribers"}, pc : {"holding"},
     serial : {"AAA"}, id : {0}, objs : {"empty", "DeviceObject", "dict"},
     stage : {1}, total : {0}]

\* `async with self._lock:` on entry
Acquire(t, c) ==
    IF CanAcquire
    THEN /\ locked' = TRUE
         /\ waiters' = waiters
         /\ call' = [call EXCEPT ![t] = c]
    ELSE /\ locked' = locked
         /\ waiters' = Append(waiters, t)
         /\ call' = [call EXCEPT ![t] = [c EXCEPT !.pc = "waiting"]]

\* a task calls a coroutine of the manager and runs it up to its first
\* suspension point
Call(t, c) ==
    /\ call[t].pc \in {"idle", "returned"}
    /\ c.op = "remove_long_poll_subscription" => IsLongPoll(c.id)
    /\ Affordable(c.op)
    /\ IF c.op = "notify_all_subscribers" /\ c.objs = "empty"
       THEN /\ call' = [call EXCEPT ![t] = [c EXCEPT !.pc = "returned"]]
            /\ UNCHANGED <<locked, waiters>>
       ELSE Acquire(t, c)
    /\ UNCHANGED <<manager, now, ended_at, watchdog, pure, store, suspended>>
    /\ last' = [op |-> "call", ret |-> c.op, n |-> 0]

\* the first waiter, woken by the release, takes the lock
lock_acquire(t) ==
    /\ ~locked
    /\ waiters # <<>>
    /\ Head(waiters) = t
    /\ locked' = TRUE
    /\ waiters' = Tail(waiters)
    /\ call' = [call EXCEPT ![t].pc = "holding"]
    /\ UNCHANGED <<manager, now, ended_at, watchdog, pure, store, suspended>>
    /\ last' = [op |-> "lock_acquire", ret |-> None, n |-> 0]

Runs(t, op, stage) ==
    /\ call[t].pc = "holding"
    /\ call[t].op = op
    /\ call[t].stage = stage

\* the block under the lock of the coroutine the lock holder is in
CriticalSection(t) ==
    \/ /\ Runs(t, "add_long_poll_subscription", 1)
       /\ add_long_poll_subscription(call[t].serial, "session-1", EmptyDict)
    \/ /\ Runs(t, "add_subscription", 1)
       /\ add_subscription(call[t].serial, Watched)
    \/ /\ Runs(t, "remove_long_poll_subscription", 1)
       /\ remove_long_poll_subscription(call[t].id)
    \/ /\ Runs(t, "notify_all_subscribers", 1)
       /\ notify_long_poll_subscribers(call[t].serial, Changed)
    \/ /\ Runs(t, "notify_all_subscribers", 2)
       /\ notify_subscribers(call[t].serial, Changed)

NextLock ==
    \/ \E t \in Callers, c \in Calls : Call(t, c)
    \/ \E t \in Callers : lock_acquire(t)
    \/ \E t \in Callers : Runs(t, "add_long_poll_subscription", 1)
                          /\ add_long_poll_subscription(call[t].serial, "session-1", EmptyDict)
    \/ \E t \in Callers : Runs(t, "add_subscription", 1)
                          /\ add_subscription(call[t].serial, Watched)
    \/ \E t \in Callers : Runs(t, "remove_long_poll_subscription", 1)
                          /\ remove_long_poll_subscription(call[t].id)
    \/ \E t \in Callers : Runs(t, "notify_all_subscribers", 1)
                          /\ notify_long_poll_subscribers(call[t].serial, Changed)
    \/ \E t \in Callers : Runs(t, "notify_all_subscribers", 2)
                          /\ notify_subscribers(call[t].serial, Changed)

\* the event loop runs every task that is ready
SpecLock ==
    /\ Init
    /\ [][NextLock]_vars
    /\ WF_vars(\E t \in Callers : lock_acquire(t) \/ CriticalSection(t))

\* _monitor_loop can run: it was created and has not run yet, an
\* integration-manager call it awaits has returned, or its sleep is over
Runnable ==
    task \in {"created", "checking"} \/ (task = "sleeping" /\ wall >= wake_at)

\* datetime.now() advances while the event loop has nothing ready to run: a
\* step of a coroutine takes no time, and a sleep returns when it is due
AdvanceOnTime(limit) ==
    /\ ~Runnable
    /\ Advance(limit)

\* The availability watchdog of devices that hold no subscription: its life
\* cycle, the device transport's mark_device_seen and the clock.
NextWatchdog ==
    \/ set_integration_manager
    \/ \E serials \in SeqsUpTo(Serials, 1) : initialize_from_serials(serials)
    \/ start
    \/ stop
    \/ monitor_loop_cancelled
    \/ stop_return
    \/ monitor_loop
    \/ check_devices
    \/ \E s \in Serials : mark_device_seen(s)
    \/ Advance(WallHorizon)

SpecWatchdog == Init /\ [][NextWatchdog]_vars

\* The running watchdog under the event loop's scheduling: a task that can
\* run does run, and time passes.
NextWatchdogLive ==
    \/ set_integration_manager
    \/ start
    \/ monitor_loop
    \/ check_devices
    \/ \E s \in Serials : mark_device_seen(s)
    \/ AdvanceOnTime(LiveHorizon)

SpecWatchdogLive ==
    /\ Init
    /\ [][NextWatchdogLive]_vars
    /\ WF_vars(monitor_loop)
    /\ WF_vars(check_devices)
    /\ WF_vars(AdvanceOnTime(LiveHorizon))

\* The running watchdog beside the long-poll subscriptions of one device, which
\* it reads through has_active_subscription; what a subscription watches plays
\* no part.
NextHeartbeat ==
    \/ \E sid \in SessionIds : add_long_poll_subscription("AAA", sid, EmptyDict)
    \/ \E id \in 1..MaxUuid : remove_long_poll_subscription(id)
    \/ set_integration_manager
    \/ start
    \/ monitor_loop
    \/ check_devices
    \/ \E s \in Serials : mark_device_seen(s)
    \/ Advance(HeartbeatHorizon)

SpecHeartbeat == Init /\ [][NextHeartbeat]_vars

\* ================================================================ claims ====
LiveLongPoll == UNION {long_poll_subscriptions[s] : s \in DOMAIN long_poll_subscriptions}
LivePending == UNION {subscriptions[s] : s \in DOMAIN subscriptions}
LongPollIds == {id \in Uuids : heap[id].kind = "long_poll"}
PendingIds == {id \in Uuids : heap[id].kind = "future"}

\* the delta of the specification: { o in batch : o.object_key in watched and
\* o.object_revision > watched[o.object_key] }, in batch order
InDelta(watched, o) ==
    o.object_key \in DOMAIN watched /\ o.object_revision > watched[o.object_key]
Delta(watched, batch) ==
    LET Keep(o) == InDelta(watched, o) IN SelectSeq(batch, Keep)

\* C1: whatever notify_long_poll_subscribers enqueues on a live subscription's
\* notify queue is exactly the delta of the batch against that subscription's
\* watched map: no unwatched key, no revision that is not greater than the
\* last-known one.
C1_DeltaCorrectness ==
    [][\A s \in Serials, b \in Batches :
          (last'.op = "notify_long_poll_subscribers" /\ notify_long_poll_subscribers(s, b)) =>
             \A id \in Get(long_poll_subscriptions, s, {}) :
                heap'[id].notify_queue # heap[id].notify_queue =>
                   heap'[id].notify_queue =
                      Append(heap[id].notify_queue, Delta(heap[id].subscribed_keys, b))]_vars

\* C2: a notify whose batch holds nothing that a subscription watches at a
\* greater revision enqueues nothing on that subscription, and the returned
\* count is the number of subscriptions that received a non-empty batch.
C2_NoSpuriousWakeUp ==
    [][\A s \in Serials, b \in Batches :
          (last'.op = "notify_long_poll_subscribers" /\ notify_long_poll_subscribers(s, b)) =>
             LET subs == Get(long_poll_subscriptions, s, {})
                 woken == {id \in subs : Delta(heap[id].subscribed_keys, b) # <<>>}
             IN  /\ \A id \in subs \ woken : heap'[id].notify_queue = heap[id].notify_queue
                 /\ last'.n = Cardinality(woken)]_vars

IsPrefix(p, q) == Len(p) <= Len(q) /\ SubSeq(q, 1, Len(p)) = p

Delivered(id) ==
    IF heap[id].kind = "long_poll"
    THEN heap[id].notify_queue # <<>>
    ELSE heap[id].future.state = "done"

DeliveredCount(id) ==
    IF heap[id].kind = "long_poll"
    THEN Len(heap[id].notify_queue)
    ELSE IF heap[id].future.state = "done" THEN 1 ELSE 0

\* C4: a subscription of either kind receives at most one batch,
\* and one that has received a batch is no longer live.
C4_DeliveryCloses ==
    \A id \in Uuids :
       /\ DeliveredCount(id) <= 1
       /\ Delivered(id) => id \notin LiveLongPoll \cup LivePending

\* C5: for every serial, get_subscription_count never exceeds
\* max_subscriptions_per_device.
C5_SubscriptionCap ==
    \A s \in Serials : get_subscription_count(s) <= max_subscriptions_per_device

\* C6: a registration for a serial that already holds
\* max_subscriptions_per_device subscriptions of that kind is rejected (None, or
\* HTTP 429) and changes nothing; one made below the cap is accepted.
C6_OverflowLeavesStateUntouched ==
    [][/\ \A s \in Serials, sid \in SessionIds, w \in WatchedMaps :
             (last'.op = "add_long_poll_subscription" /\ add_long_poll_subscription(s, sid, w)) =>
                IF Cardinality(Get(long_poll_subscriptions, s, {})) >= max_subscriptions_per_device
                THEN last'.ret = None /\ UNCHANGED manager
                ELSE /\ last'.ret = "subscription"
                     /\ last'.n \in Get(long_poll_subscriptions', s, {})
                     /\ last'.n \notin Uuids
                     /\ heap'[last'.n].subscribed_keys = w
       /\ \A s \in Serials, w \in WatchedMaps :
             (last'.op = "add_subscription" /\ add_subscription(s, w)) =>
                IF Cardinality(Get(subscriptions, s, {})) >= max_subscriptions_per_device
                THEN last'.ret = HTTPTooManyRequests /\ UNCHANGED manager
                ELSE /\ last'.ret = "session_id"
                     /\ last'.n \in Get(subscriptions', s, {})
                     /\ last'.n \notin Uuids
                     /\ heap'[last'.n].future.state = "pending"]_vars

\* C6 witness: a long-poll registration has just been rejected for a serial that
\* holds max_subscriptions_per_device long-poll subscriptions.
C6_Witness ==
    /\ last = [op |-> "add_long_poll_subscription", ret |-> None, n |-> 0]
    /\ \E s \in DOMAIN long_poll_subscriptions :
          Cardinality(long_poll_subscriptions[s]) = max_subscriptions_per_device

\* C7: a notify for serial S reaches every live subscription of S whose delta is
\* not empty, and changes no subscription and no registry entry of another
\* serial.
C7_SnapshotCompleteSerialIsolated ==
    [][/\ \A s \in Serials, b \in Batches :
             (last'.op = "notify_long_poll_subscribers" /\ notify_long_poll_subscribers(s, b)) =>
                /\ \A id \in Get(long_poll_subscriptions, s, {}) :
                      LET delta == Delta(heap[id].subscribed_keys, b)
                          got == heap'[id].notify_queue[Len(heap'[id].notify_queue)]
                      IN  delta # <<>> =>
                             /\ Len(heap'[id].notify_queue) = Len(heap[id].notify_queue) + 1
                             /\ \A i \in 1..Len(delta) :
                                   \E j \in 1..Len(got) : got[j] = delta[i]
                /\ \A id \in Uuids : heap[id].serial # s => heap'[id] = heap[id]
                /\ \A s2 \in Serials \ {s} :
                      Get(long_poll_subscriptions', s2, {}) = Get(long_poll_subscriptions, s2, {})
       /\ \A s \in Serials, b \in Batches :
             (last'.op = "notify_subscribers" /\ notify_subscribers(s, b)) =>
                /\ \A id \in Get(subscriptions, s, {}) :
                      Delta(heap[id].subscribed_keys, b) # <<>> =>
                         heap'[id].future = [state |-> "done",
                                             result |-> Delta(heap[id].subscribed_keys, b)]
                /\ \A id \in Uuids : heap[id].serial # s => heap'[id] = heap[id]
                /\ \A s2 \in Serials \ {s} :
                      Get(subscriptions', s2, {}) = Get(subscriptions, s2, {})]_vars

\* C7 witness: a notify has just reached two live subscriptions of one serial
\* while a subscription of the other serial was left with an empty queue.
C7_Witness ==
    /\ last = [op |-> "notify_long_poll_subscribers", ret |-> "notified", n |-> 2]
    /\ \E s \in DOMAIN long_poll_subscriptions :
          /\ Cardinality(long_poll_subscriptions[s]) = 2
          /\ \A id \in long_poll_subscriptions[s] : heap[id].notify_queue # <<>>
          /\ \E id \in LiveLongPoll : heap[id].serial # s /\ heap[id].notify_queue = <<>>

\* C8: a long-poll subscription that remove_long_poll_subscription has removed
\* never re-enters the registry, and no later step changes its notify queue.
C8_RemovedIsAbsorbing ==
    [][\A id \in DOMAIN ended_at :
          /\ id \notin LiveLongPoll'
          /\ heap'[id] = heap[id]]_vars

\* C8 witness: a notify has just enqueued on a live subscription of a serial one
\* of whose subscriptions was removed before; the removed one's queue is empty.
C8_Witness ==
    /\ last = [op |-> "notify_long_poll_subscribers", ret |-> "notified", n |-> 1]
    /\ \E gone \in DOMAIN ended_at :
          /\ heap[gone].notify_queue = <<>>
          /\ DOMAIN long_poll_subscriptions = {heap[gone].serial}
          /\ \E id \in long_poll_subscriptions[heap[gone].serial] :
                Len(heap[id].notify_queue) = 1

\* C9: remove_long_poll_subscription on a subscription that is not in the
\* registry (a repeated call) changes neither the registries, nor any
\* subscription, nor the last-ended record.
C9_UnsubscribeIdempotent ==
    [][\A id \in 1..MaxUuid :
          (remove_long_poll_subscription(id) /\ id \notin LiveLongPoll) =>
             UNCHANGED manager]_vars

\* C9 witness: remove_long_poll_subscription has just run although every
\* subscription that ever ended had ended at an earlier clock reading.
C9_Witness ==
    /\ last.op = "remove_long_poll_subscription"
    /\ DOMAIN ended_at # {}
    /\ \A id \in DOMAIN ended_at : ended_at[id] < now

\* C10: is_resubscribe(serial) is true iff a long-poll subscription of that
\* serial ended strictly less than 5 s ago: false for a serial none of whose
\* subscriptions ended, false once 5 s have elapsed, and independent of the
\* endings of other serials' subscriptions.
C10_ResubscribeWindow ==
    \A s \in Serials :
       is_resubscribe(s) <=>
          \E id \in DOMAIN ended_at : heap[id].serial = s /\ now - ended_at[id] < 5

\* C10 witness: exactly 5 s after the last end of one serial's subscription the
\* answer for it is false while it is true for the other serial, and a third
\* subscription never ended.
C10_Witness ==
    \E s1, s2 \in Serials :
       /\ s1 # s2
       /\ s1 \in DOMAIN last_subscription_end
       /\ now - last_subscription_end[s1] = 5
       /\ ~is_resubscribe(s1)
       /\ is_resubscribe(s2)

SameDeviceSession(a, b) ==
    a # b /\ heap[a].serial = heap[b].serial /\ heap[a].session_id = heap[b].session_id

\* C11: the device's session id is never a key. A registration mints an id no
\* subscription has had and evicts no live subscription, so subscriptions of
\* one serial with one session_id are live together; a notify appends the batch
\* to the queue of each of them; removing one leaves the others registered and
\* their queues as they were.
C11_SessionIdIsNoKey ==
    [][/\ \A s \in Serials, sid \in SessionIds, w \in WatchedMaps :
             (last'.op = "add_long_poll_subscription" /\ add_long_poll_subscription(s, sid, w)) =>
                /\ LiveLongPoll \subseteq LiveLongPoll'
                /\ last'.ret = "subscription" =>
                      /\ last'.n \notin Uuids
                      /\ heap'[last'.n].id = last'.n
                      /\ LiveLongPoll' = LiveLongPoll \cup {last'.n}
       /\ \A s \in Serials, b \in Batches :
             (last'.op = "notify_long_poll_subscribers" /\ notify_long_poll_subscribers(s, b)) =>
                \A x, y \in Get(long_poll_subscriptions, s, {}) :
                   SameDeviceSession(x, y) =>
                      /\ heap'[x].notify_queue = Append(heap[x].notify_queue, b)
                      /\ heap'[y].notify_queue = Append(heap[y].notify_queue, b)
       /\ \A id \in 1..MaxUuid :
             (last'.op = "remove_long_poll_subscription" /\ remove_long_poll_subscription(id)) =>
                /\ LiveLongPoll' = LiveLongPoll \ {id}
                /\ \A other \in LiveLongPoll \ {id} : heap'[other] = heap[other]]_vars

\* C11 witness: one of two subscriptions of one serial and one session_id has
\* just been removed; the other is still registered and holds the batch that a
\* notify put on its queue, and the removed one holds a batch of its own.
C11_Witness ==
    /\ last.op = "remove_long_poll_subscription"
    /\ \E gone \in DOMAIN ended_at, id \in LiveLongPoll :
          /\ SameDeviceSession(gone, id)
          /\ ended_at[gone] = now
          /\ heap[id].notify_queue # <<>>
          /\ heap[gone].notify_queue # <<>>

Alternates(history) ==
    \A i \in 1..(Len(history) - 1) : history[i] # history[i + 1]

\* C12: availability events are emitted only on edges. The calls made to the
\* integration manager for one serial never hold two connected nor two
\* disconnected in a row, and mark_device_seen on a tracked device that is
\* available only updates last_seen and emits nothing.
C12_EdgesOnly ==
    [][/\ \A s \in Serials : Alternates(events'[s])
       /\ \A s \in Serials :
             (last'.op = "mark_device_seen" /\ mark_device_seen(s)
                /\ s \in Tracked(devices) /\ StatusOf(devices, s).is_available) =>
                /\ events' = events
                /\ devices' = [devices EXCEPT ![IndexOf(devices, s)].last_seen = wall]]_vars

\* C12 witness: a device that connected, timed out and reconnected has just been
\* marked seen once more, and no fourth event was sent.
C12_Witness ==
    /\ last = [op |-> "mark_device_seen", ret |-> None, n |-> 0]
    /\ Tracked(devices) = {"AAA"}
    /\ events["AAA"] = <<"connected", "disconnected", "connected">>

\* the step is one of _monitor_loop inside a check round
InRound == last'.op \in {"monitor_loop", "check_devices"} /\ task' \in {"checking", "sleeping"}
\* the serials the round has still to check before the step, those the step
\* checks, and the round's `now`
Pending == IF task = "checking" THEN todo ELSE SerialsOf(devices)
Checked == {Pending[i] : i \in 1..(Len(Pending) - Len(todo'))}
RoundNow == IF task = "checking" THEN stale_threshold + timeout_seconds ELSE wall
\* the history after one call to the integration manager, if there is one
Sent(history, event) ==
    IF integration_manager # None THEN Append(history, event) ELSE history

\* C13: a tracked, available device without a live subscription that was last
\* seen more than the timeout ago gets exactly one disconnected from the round
\* that checks it and none from any later round while it stays unavailable; the
\* next mark_device_seen makes it available and sends exactly one connected, and
\* the calls that follow send none.
C13_DisconnectReconnectOnce ==
    [][/\ InRound =>
             \A s \in Tracked(devices) :
                ~has_active_subscription(s) =>
                   LET status == StatusOf(devices, s)
                   IN  IF /\ s \in Checked
                          /\ status.is_available
                          /\ RoundNow - status.last_seen > timeout_seconds
                       THEN /\ ~StatusOf(devices', s).is_available
                            /\ events'[s] = Sent(events[s], "disconnected")
                       ELSE /\ events'[s] = events[s]
                            /\ StatusOf(devices', s) = status
       /\ \A s \in Serials :
             (last'.op = "mark_device_seen" /\ mark_device_seen(s)) =>
                /\ StatusOf(devices', s).is_available
                /\ events'[s] =
                      IF s \in Tracked(devices) /\ StatusOf(devices, s).is_available
                      THEN events[s]
                      ELSE Sent(events[s], "connected")]_vars

\* C13 witness: a device known from storage timed out and came back; rounds ran
\* after the disconnect, and the mark_device_seen that has just run is not the
\* one that reconnected it. One disconnected and one connected were sent.
C13_Witness ==
    /\ last = [op |-> "mark_device_seen", ret |-> None, n |-> 0]
    /\ Tracked(devices) = {"AAA"}
    /\ events["AAA"] = <<"disconnected", "connected">>
    /\ task = "sleeping"
    /\ wall = WallHorizon

MarkedUnavailable(s) ==
    StatusOf(devices, s).is_available /\ ~StatusOf(devices', s).is_available

\* C14: in a check round a tracked device is marked unavailable if and only if
\* the round checks it while it has no live subscription, it is available and
\* the round's now - last_seen is strictly greater than the timeout; a device
\* that has a live subscription when it is checked is marked seen instead: its
\* last_seen is refreshed and it is available afterwards.
C14_CheckRule ==
    [][InRound =>
          \A s \in Tracked(devices) :
             LET status == StatusOf(devices, s)
             IN  /\ MarkedUnavailable(s) <=>
                       /\ s \in Checked
                       /\ ~has_active_subscription(s)
                       /\ status.is_available
                       /\ RoundNow - status.last_seen > timeout_seconds
                 /\ (s \in Checked /\ has_active_subscription(s)) =>
                       /\ StatusOf(devices', s).last_seen = wall
                       /\ StatusOf(devices', s).is_available
                       /\ events'[s] = IF status.is_available THEN events[s]
                                       ELSE Sent(events[s], "connected")]_vars

\* C14 witness: one step of a round has checked two devices: the one that holds
\* a live subscription was marked seen, the other, last seen one second more
\* than the timeout ago, was marked unavailable.
C14_Witness ==
    /\ last = [op |-> "monitor_loop", ret |-> None, n |-> 2]
    /\ has_active_subscription("AAA")
    /\ "AAA" \in Tracked(devices)
    /\ StatusOf(devices, "AAA") = [serial |-> "AAA", last_seen |-> wall, is_available |-> TRUE]
    /\ "BBB" \in Tracked(devices)
    /\ StatusOf(devices, "BBB") =
          [serial |-> "BBB", last_seen |-> wall - timeout_seconds - 1, is_available |-> FALSE]

LoopAlive == running /\ task \in {"created", "sleeping", "checking"}
\* the latest last_seen whose timeout and following round fit below LiveHorizon
LatestSeen == LiveHorizon - timeout_seconds - check_interval_seconds

\* C15: while the monitor loop runs, a tracked, available device that is not
\* marked seen again (its last_seen stays at or below LatestSeen) is eventually
\* marked unavailable, with a disconnected sent to the integration manager if
\* there is one; and when the loop goes to sleep no available device was last
\* seen more than the timeout plus one check interval ago.
C15_WatchdogLiveness ==
    /\ \A s \in Serials :
          (/\ LoopAlive
           /\ s \in Tracked(devices)
           /\ StatusOf(devices, s).is_available
           /\ StatusOf(devices, s).last_seen <= LatestSeen)
          ~> (\/ ~LoopAlive
              \/ /\ s \in Tracked(devices)
                 /\ \/ StatusOf(devices, s).last_seen > LatestSeen
                    \/ /\ ~StatusOf(devices, s).is_available
                       /\ \/ integration_manager = None
                          \/ /\ events[s] # <<>>
                             /\ events[s][Len(events[s])] = "disconnected")
    /\ [](LoopAlive /\ task = "sleeping" =>
             \A s \in Tracked(devices) :
                StatusOf(devices, s).is_available =>
                   wall - StatusOf(devices, s).last_seen
                      <= timeout_seconds + check_interval_seconds)

\* C15 witness: the running loop has just marked unavailable, and reported, a
\* device that was last seen one second more than the timeout ago.
C15_Witness ==
    /\ last.op = "monitor_loop"
    /\ running
    /\ Tracked(devices) = {"AAA"}
    /\ StatusOf(devices, "AAA") =
          [serial |-> "AAA", last_seen |-> wall - timeout_seconds - 1, is_available |-> FALSE]
    /\ events["AAA"] = <<"connected", "disconnected">>

\* C16: the first registration for a serial is reported to the watchdog. Read
\* in the way most favourable to the program, by the end of the next check
\* round at the latest: when a round that ran in one step has just ended, every
\* serial that holds a live subscription is tracked and available.
C16_FirstRegistrationReported ==
    (last.op = "monitor_loop" /\ task = "sleeping") =>
       \A s \in Serials :
          has_active_subscription(s) =>
             s \in Tracked(devices) /\ StatusOf(devices, s).is_available

\* C17: stop() joins the loop. A stop() that finds no task returns at once; one
\* that finds a task cancels it wherever it stands, the cancelled task ends and
\* the stop() that awaits it then returns; when stop() has returned there is no
\* task left, and from the call of stop() until the next start() no check round
\* runs and the watchdog loop sends no event.
C17_StopJoinsLoop ==
    /\ [](last.op = "stop" => task = None /\ ~running)
    /\ [](/\ task = "cancelling" => ENABLED monitor_loop_cancelled
          /\ task = "done" => ENABLED stop_return)
    /\ [][/\ (stop /\ task = None) => (last'.op = "stop" /\ task' = None)
          /\ (stop /\ task # None) => task' = "cancelling"
          /\ ~running =>
                /\ ~InRound
                /\ events' # events => last'.op = "mark_device_seen"]_vars

\* C17 witness: stop() has returned after cancelling a loop that was in the
\* middle of a check round: the round had marked the first device unavailable
\* and never reached the second, which timed out at the same moment.
C17_Witness ==
    /\ last = [op |-> "stop", ret |-> None, n |-> 1]
    /\ task = None
    /\ devices = <<[serial |-> "AAA", last_seen |-> 0, is_available |-> FALSE],
                   [serial |-> "BBB", last_seen |-> 0, is_available |-> TRUE]>>
    /\ events = [s \in Serials |-> IF s = "AAA" THEN <<"disconnected">> ELSE <<>>]

\* ---------------------------------------------------------------- C18 ----
Holders == {t \in Callers : call[t].pc = "holding"}
Queued == {waiters[i] : i \in DOMAIN waiters}

\* at most one caller is inside a block under the lock, and the lock is held
\* exactly when a caller is inside one
MutualExclusion ==
    /\ Cardinality(Holders) <= 1
    /\ locked <=> Holders # {}

\* nobody waits for the lock while holding it, and the callers that wait for
\* it are exactly those in the queue, each once
NoNestedAcquisition ==
    /\ Holders \cap Queued = {}
    /\ Queued = {t \in Callers : call[t].pc = "waiting"}
    /\ Cardinality(Queued) = Len(waiters)

\* the holder's block can always run to its end, and a free lock with waiters
\* can always be taken: the lock is held across no wait
NoWaitUnderLock ==
    /\ \A t \in Holders : ENABLED CriticalSection(t)
    /\ (~locked /\ waiters # <<>>) => ENABLED lock_acquire(Head(waiters))

\* C18: the blocks of register, unregister and notify under the registry's
\* lock never overlap, the lock holder never waits for anything (the lock
\* included: no caller acquires it while holding it), and every call that has
\* begun returns, however the callers interleave.
C18_MutualExclusionNoDeadlock ==
    /\ [](MutualExclusion /\ NoNestedAcquisition /\ NoWaitUnderLock)
    /\ \A t \in Callers :
          (call[t].pc \in {"waiting", "holding"}) ~> (call[t].pc = "returned")

\* a notify that took the lock a second time, for the future-based
\* subscribers, while another caller waits for the lock
C18_Witness ==
    \E t \in Callers, u \in Callers :
        /\ Runs(t, "notify_all_subscribers", 2)
        /\ call[u].pc = "waiting"
        /\ call[u].op = "add_long_poll_subscription"

\* ---------------------------------------------------------------- C20 ----
\* the step in which caller t returns from notify_all_subscribers
Returns(t) ==
    /\ call[t].op = "notify_all_subscribers"
    /\ call[t].pc # "returned"
    /\ call'[t].pc = "returned"

\* the future-based subscribers of the serial that the batch concerns and
\* that still wait
Unnotified(serial) ==
    {id \in Get(subscriptions, serial, {}) : Resolves(heap[id], Changed)}

\* C20: when notify_all_subscribers(serial, objs) returns for a non-empty
\* objs, whether DeviceObjects or dicts, it has put the batch in the queue of
\* the serial's long-poll subscribers and no future-based subscriber of the
\* serial that the batch concerns is left waiting, and it returns the number
\* of subscribers it notified.
C20_NotifiesBothKinds ==
    [][\A t \in Callers :
          (Returns(t) /\ call[t].pc = "holding") =>
              /\ Unnotified(call[t].serial)' = {}
              /\ call'[t].total >= last'.n]_vars

\* ---------------------------------------------------------------- C19 ----
\* the edges told to a failing integration in this step
FailedEdges ==
    {s \in Serials : integration_manager = "failing" /\ events'[s] # events[s]}

Values == {"heat", "cool"}
\* lib.types.DeviceObject, with the fields the formatting reads
WireObjects ==
    [serial : Serials, object_key : {"device.AAA", "shared.AAA"},
     object_revision : 1..MaxRev, object_timestamp : 1..MaxTimestamp, value : Values]

\* a dict literal keeps the order in which its items are written: the dict is
\* the sequence of its (key, value) items
FormatObjectKeyFirst(obj) ==
    << <<"object_key", obj.object_key>>,
       <<"object_revision", obj.object_revision>>,
       <<"object_timestamp", obj.object_timestamp>>,
       <<"value", obj.value>> >>
FormatObject(obj) ==
    << <<"object_revision", obj.object_revision>>,
       <<"object_timestamp", obj.object_timestamp>>,
       <<"object_key", obj.object_key>>,
       <<"value", obj.value>> >>

\* `[{...} for obj in updated_objects]`
FormatObjects(updated_objects) ==
    [i \in DOMAIN updated_objects |-> FormatObject(updated_objects[i])]

\* notify_subscribers_with_objects(serial, arg) up to its call of _notify_all:
\* result is the list it hands over for the long-poll subscribers
notify_subscribers_with_objects ==
    /\ result = <<>>
    /\ result' = <<IF arg = <<>> THEN <<>> ELSE FormatObjects(arg)>>
    /\ UNCHANGED <<manager, watchdog, locking, suspended, store, now, ended_at, arg>>
    /\ last' = [op |-> "notify_subscribers_with_objects",
                ret |-> IF arg = <<>> THEN "0" ELSE "_notify_all", n |-> Len(arg)]

InitWire ==
    /\ Constructed
    /\ arg \in SeqsUpTo(WireObjects, MaxWireBatch)
    /\ result = <<>>

NextWire == notify_subscribers_with_objects

SpecWire == InitWire /\ [][NextWire]_vars

\* ---------------------------------------------------------------- C21 ----
Keys(dict) == [i \in DOMAIN dict |-> dict[i][1]]

\* C21: every element handed to the long-poll subscribers has the four fields
\* object_revision, object_timestamp, object_key, value, in this order and no
\* other (no serial), with the values of the DeviceObject at the same place
\* of the input list.
C21_WireFieldOrder ==
    result # <<>> =>
        LET formatted_objects == result[1]
        IN  /\ Len(formatted_objects) = Len(arg)
            /\ \A i \in DOMAIN formatted_objects :
                  /\ Keys(formatted_objects[i]) =
                         <<"object_revision", "object_timestamp", "object_key", "value">>
                  /\ formatted_objects[i][1][2] = arg[i].object_revision
                  /\ formatted_objects[i][2][2] = arg[i].object_timestamp
                  /\ formatted_objects[i][3][2] = arg[i].object_key
                  /\ formatted_objects[i][4][2] = arg[i].value

\* two different objects were formatted
C21_Witness ==
    /\ result # <<>>
    /\ Len(arg) = 2
    /\ arg[1].object_key # arg[2].object_key
    /\ arg[1].object_revision # arg[2].object_revision

\* ------------------------------------------------- /nest/entry ----
\* a URL is the sequence of its parts; a port is written in digits
Schemes == {"http", "https"}
Hostnames == {"backdoor.nolongerevil.com", "192.168.20.20", "nest.local"}
Ports == {80, 443, 8000}
Digits(port) == CASE port = 80 -> "80" [] port = 443 -> "443" [] port = 8000 -> "8000"
PortStrings == {Digits(port) : port \in Ports}

\* the values of api_origin: with and without a port
ApiOrigins ==
    {<<scheme, "://", hostname>> : scheme \in Schemes, hostname \in Hostnames}
    \cup {<<scheme, "://", hostname, ":", Digits(port)>> :
              scheme \in Schemes, hostname \in Hostnames, port \in Ports}

\* urllib.parse.urlparse of an origin: scheme, hostname and port ("" for None)
urlparse(url) ==
    [scheme |-> url[1], hostname |-> url[3],
     port |-> IF Len(url) >= 5 /\ url[4] = ":" THEN url[5] ELSE ""]

\* Settings.api_origin_with_port
api_origin_with_port(settings) ==
    LET parsed == urlparse(settings.api_origin)
    IN  IF parsed.port = ""
        THEN <<parsed.scheme, "://", parsed.hostname, ":", Digits(settings.proxy_port)>>
        ELSE settings.api_origin

\* `origin = settings.api_origin` in handle_entry
OriginWithPort(settings) == api_origin_with_port(settings)
Origin(settings) == settings.api_origin

ServiceUrls ==
    {"czfe_url", "transport_url", "direct_transport_url", "passphrase_url", "ping_url",
     "pro_info_url", "weather_url", "upload_url"}

\* response_data of handle_entry, the service URLs of it
ResponseData(settings) ==
    LET origin == Origin(settings)
    IN  [czfe_url |-> origin \o <<"/nest/transport">>,
         transport_url |-> origin \o <<"/nest/transport">>,
         direct_transport_url |-> origin \o <<"/nest/transport">>,
         passphrase_url |-> origin \o <<"/nest/passphrase">>,
         ping_url |-> origin \o <<"/nest/transport">>,
         pro_info_url |-> origin \o <<"/nest/pro_info">>,
         weather_url |-> origin \o <<"/nest/weather/v1?query=">>,
         upload_url |-> origin \o <<"/nest/upload">>]

\* a device asks for the discovery document
handle_entry ==
    /\ result = <<>>
    /\ result' = <<ResponseData(arg)>>
    /\ UNCHANGED <<manager, watchdog, locking, suspended, store, now, ended_at, arg>>
    /\ last' = [op |-> "handle_entry", ret |-> "200", n |-> 0]

\* the property is read
read_api_origin_with_port ==
    /\ result = <<>>
    /\ result' = <<api_origin_with_port(arg)>>
    /\ UNCHANGED <<manager, watchdog, locking, suspended, store, now, ended_at, arg>>
    /\ last' = [op |-> "api_origin_with_port", ret |-> None, n |-> 0]

InitEntry ==
    /\ Constructed
    /\ arg \in [api_origin : ApiOrigins, proxy_port : Ports]
    /\ result = <<>>

NextEntry ==
    \/ handle_entry
    \/ read_api_origin_with_port

SpecEntry == InitEntry /\ [][NextEntry]_vars

\* ---------------------------------------------------------------- C22 ----
\* what the firmware looks for: a ":" followed by digits
HasExplicitPort(url) ==
    \E i \in 1..(Len(url) - 1) : url[i] = ":" /\ url[i + 1] \in PortStrings

\* C22: every service URL of the discovery document carries an explicit
\* port: the port of api_origin when it names one, else proxy_port.
C22_ExplicitPort ==
    (last.op = "handle_entry") =>
        \A name \in ServiceUrls :
            LET url == result[1][name]
                parsed == urlparse(arg.api_origin)
            IN  /\ HasExplicitPort(url)
                /\ url[5] = IF parsed.port # "" THEN parsed.port
                            ELSE Digits(arg.proxy_port)

\* what holds of the property handle_entry does not read
ApiOriginWithPortIsExplicit ==
    (last.op = "api_origin_with_port") =>
        /\ HasExplicitPort(result[1])
        /\ urlparse(arg.api_origin).port # "" => result[1] = arg.api_origin

\* ---------------------------------------------------- Settings ----
\* pydantic's check of the field constraints
ValidatesBelow(suspend_time_max) == suspend_time_max <= suspend_time_max_le
Validates(suspend_time_max) ==
    /\ suspend_time_max >= suspend_time_max_ge
    /\ suspend_time_max <= suspend_time_max_le

\* Settings.tickle_timeout, `self.suspend_time_max * 0.80`, in hundredths of a
\* second
tickle_timeout_whole(suspend_time_max) == suspend_time_max * 100
tickle_timeout(suspend_time_max) == suspend_time_max * 80

\* Settings(suspend_time_max=arg), and tickle_timeout read from it
load_settings ==
    /\ last.op = "init"
    /\ result' = IF Validates(arg) THEN <<tickle_timeout(arg)>> ELSE <<>>
    /\ UNCHANGED <<manager, watchdog, locking, suspended, store, now, ended_at, arg>>
    /\ last' = [op |-> "Settings",
                ret |-> IF Validates(arg) THEN "settings" ELSE "ValidationError",
                n |-> arg]

InitSettings ==
    /\ Constructed
    /\ arg \in 0..MaxSuspendInput
    /\ result = <<>>

NextSettings == load_settings

SpecSettings == InitSettings /\ [][NextSettings]_vars

\* ---------------------------------------------------------------- C23 ----
\* C23: for suspend_time_max from 30 to 300 the hold deadline is 0.80 times
\* suspend_time_max, strictly below suspend_time_max, and 48 s at 60 s, the
\* default; any other suspend_time_max is rejected when the settings are
\* validated.
C23_HoldDeadline ==
    /\ suspend_time_max_default = 60
    /\ (last.op = "Settings") =>
          IF arg \in 30..300
          THEN /\ last.ret = "settings"
               /\ result[1] = 80 * arg
               /\ result[1] < arg * 100
               /\ arg = 60 => result[1] = 4800
          ELSE /\ last.ret = "ValidationError"
               /\ result = <<>>

\* the deadline was read from settings with the default suspend_time_max
C23_Witness ==
    /\ last.op = "Settings"
    /\ arg = suspend_time_max_default
    /\ result = <<4800>>

\* --------------------------------------------------- converters ----
\* JSON values by type and text; json.dumps writes a string between quotes
\* and a number or a boolean bare, json.loads reads them back
JsonValues ==
    {[type |-> "str", text |-> "heat"], [type |-> "int", text |-> "42"],
     [type |-> "bool", text |-> "true"]}
json_dumps(value) ==
    IF value.type = "str" THEN <<"\"", value.text, "\"">> ELSE <<value.text>>
json_loads(text) ==
    IF text[1] = "\"" THEN [type |-> "str", text |-> text[2]]
    ELSE IF text[1] \in {"true", "false"} THEN [type |-> "bool", text |-> text[1]]
    ELSE [type |-> "int", text |-> text[1]]

\* a datetime is its distance from the epoch in microseconds
\* `int(dt.timestamp() * 1000)`
timestamp_to_ms(dt) == dt \div 1000
\* `datetime.fromtimestamp(ms / 1000)`
ms_to_timestamp(ms) == ms * 1000

\* `timestamp_to_ms(obj.updated_at) or now_ms()`: 0 is falsy
OrNowMsIfNone(ms, now_ms) == ms
OrNowMs(ms, now_ms) == IF ms = 0 THEN now_ms ELSE ms

device_object_to_model(obj, now_ms) ==
    [serial |-> obj.serial, object_key |-> obj.object_key,
     object_revision |-> obj.object_revision,
     object_timestamp |-> obj.object_timestamp,
     value |-> json_dumps(obj.value),
     updatedAt |-> OrNowMs(timestamp_to_ms(obj.updated_at), now_ms)]

\* `ms_to_timestamp(model.updatedAt) or datetime.now()`: a datetime is truthy
model_to_device_object(model) ==
    [serial |-> model.serial, object_key |-> model.object_key,
     object_revision |-> model.object_revision,
     object_timestamp |-> model.object_timestamp,
     value |-> json_loads(model.value),
     updated_at |-> ms_to_timestamp(model.updatedAt)]

\* the objects converted: updated_at on every half millisecond
StoredObjects ==
    [serial : Serials, object_key : ObjectKeys, object_revision : 1..MaxRev,
     object_timestamp : 1..MaxTimestamp, value : JsonValues,
     updated_at : {500 * h : h \in 0..MaxUpdatedAt}]

to_model ==
    /\ result = <<>>
    /\ result' = <<device_object_to_model(arg.obj, arg.now_ms)>>
    /\ UNCHANGED <<manager, watchdog, locking, suspended, store, now, ended_at, arg>>
    /\ last' = [op |-> "device_object_to_model", ret |-> None, n |-> 0]

to_device_object ==
    /\ Len(result) = 1
    /\ result' = <<result[1], model_to_device_object(result[1])>>
    /\ UNCHANGED <<manager, watchdog, locking, suspended, store, now, ended_at, arg>>
    /\ last' = [op |-> "model_to_device_object", ret |-> None, n |-> 0]

InitConverters ==
    /\ Constructed
    /\ arg \in [obj : StoredObjects, now_ms : {MaxNowMs - 1, MaxNowMs}]
    /\ result = <<>>

NextConverters ==
    \/ to_model
    \/ to_device_object

SpecConverters == InitConverters /\ [][NextConverters]_vars

\* ---------------------------------------------------------------- C24 ----
WholeMilliseconds(dt) == dt >= 0 /\ dt % 1000 = 0

\* C24: a DeviceObject whose updated_at is a whole number of milliseconds is
\* persisted with that number as updatedAt and is read back equal to the
\* original in every field.
C24_RoundTrip ==
    WholeMilliseconds(arg.obj.updated_at) =>
        /\ Len(result) >= 1 => result[1].updatedAt * 1000 = arg.obj.updated_at
        /\ Len(result) = 2 => result[2] = arg.obj

\* the same for the objects updated after the epoch
RoundTripAfterEpoch ==
    (WholeMilliseconds(arg.obj.updated_at) /\ arg.obj.updated_at > 0) =>
        /\ Len(result) >= 1 => result[1].updatedAt * 1000 = arg.obj.updated_at
        /\ Len(result) = 2 => result[2] = arg.obj

\* ------------------------------------------------- Object Store ----
UpsertObjects ==
    [serial : {"AAA"}, object_key : {"device.AAA", "shared.AAA"},
     object_revision : 1..MaxUpsertRev, value : Values]

PrimaryKey(obj) == <<obj.serial, obj.object_key>>

\* "If the stored revision for (serial, object_key) is >= obj.revision,
\* returns stale without side effect"
StaleIfSmaller(obj) ==
    /\ PrimaryKey(obj) \in DOMAIN states
    /\ states[PrimaryKey(obj)].object_revision > obj.object_revision
Stale(obj) ==
    /\ PrimaryKey(obj) \in DOMAIN states
    /\ states[PrimaryKey(obj)].object_revision >= obj.object_revision

\* upsert(obj): "Otherwise writes and returns written. Publishes to the Change
\* Bus only on written."
upsert_object(obj) ==
    /\ arg' = obj
    /\ IF Stale(obj)
       THEN /\ UNCHANGED <<states, published>>
            /\ result' = <<"stale">>
       ELSE /\ states' = Put(states, PrimaryKey(obj), obj)
            /\ published' = Append(published, obj)
            /\ result' = <<"written">>
    /\ UNCHANGED <<manager, watchdog, locking, suspended, now, ended_at, entryKeys>>
    /\ last' = [op |-> "upsert_object", ret |-> None, n |-> obj.object_revision]

\* get(serial, object_key): the object, or nothing
get_object(serial, object_key) ==
    /\ arg' = <<serial, object_key>>
    /\ result' = IF <<serial, object_key>> \in DOMAIN states
                 THEN <<states[<<serial, object_key>>]>> ELSE <<>>
    /\ UNCHANGED <<manager, watchdog, locking, suspended, store, now, ended_at>>
    /\ last' = [op |-> "get_object", ret |-> None, n |-> 0]

NextStore ==
    \/ \E obj \in UpsertObjects : upsert_object(obj)
    \/ \E obj \in UpsertObjects : get_object(obj.serial, obj.object_key)

SpecStore == Init /\ [][NextStore]_vars

\* ---------------------------------------------------------------- C25 ----
StoredRevision(table, key) == IF key \in DOMAIN table THEN table[key].object_revision ELSE 0

\* C25: an upsert whose revision is not greater than the stored one changes
\* nothing and publishes nothing; any other upsert stores the object under a
\* strictly greater revision and publishes it; so no stored revision ever
\* decreases; and a get returns the object last written.
C25_StaleRejectedRevisionsMonotone ==
    [][/\ \A key \in DOMAIN states :
             key \in DOMAIN states'
             /\ StoredRevision(states', key) >= StoredRevision(states, key)
       /\ (last'.op = "upsert_object") =>
             LET key == PrimaryKey(arg')
             IN  IF arg'.object_revision <= StoredRevision(states, key)
                 THEN /\ key \in DOMAIN states
                      /\ states' = states
                      /\ published' = published
                 ELSE /\ states'[key] = arg'
                      /\ StoredRevision(states', key) > StoredRevision(states, key)
                      /\ published' = Append(published, arg')
                      /\ \A other \in DOMAIN states \ {key} : states'[other] = states[other]
       /\ (last'.op = "get_object" /\ arg' \in DOMAIN states) =>
             /\ result' = <<states[arg']>>
             /\ \E i \in DOMAIN published :
                   /\ published[i] = states[arg']
                   /\ \A j \in (i + 1)..Len(published) :
                         PrimaryKey(published[j]) # arg']_vars

\* an upsert with the stored revision was turned away after two were written
C25_Witness ==
    /\ last.op = "upsert_object"
    /\ result = <<"stale">>
    /\ StoredRevision(states, PrimaryKey(arg)) = arg.object_revision
    /\ states[PrimaryKey(arg)].value # arg.value
    /\ Len(published) >= 2

\* -------------------------------------------------- entry keys ----
Codes == {"ABC123", "XYZ789"}
UserIds == {"user_xyz", "user_other"}

\* EntryKeyModel: a row of entryKeys; claimedAt is <<>> for NULL
EntryKey(code, serial) ==
    [code |-> code, serial |-> serial, claimed_by |-> None, claimed_at |-> <<>>]

\* create_entry_key(entry_key) for a code not yet issued
create_entry_key(code, serial) ==
    /\ code \notin DOMAIN entryKeys
    /\ entryKeys' = Put(entryKeys, code, EntryKey(code, serial))
    /\ arg' = code
    /\ result' = <<>>
    /\ UNCHANGED <<manager, watchdog, locking, suspended, now, ended_at, states, published>>
    /\ last' = [op |-> "create_entry_key", ret |-> None, n |-> 0]

\* whether claim_entry_key takes the key: the test claims a fresh key (true)
\* and then claims it again (false)
UnclaimedOrOwn(row, user_id) == row.claimed_by \in {None, user_id}
Unclaimed(row, user_id) == row.claimed_by = None

claim_entry_key(code, user_id) ==
    /\ arg' = <<code, user_id>>
    /\ IF code \in DOMAIN entryKeys /\ Unclaimed(entryKeys[code], user_id)
       THEN /\ entryKeys' = [entryKeys EXCEPT ![code].claimed_by = user_id,
                                               ![code].claimed_at = <<wall>>]
            /\ result' = <<TRUE>>
       ELSE /\ entryKeys' = entryKeys
            /\ result' = <<FALSE>>
    /\ UNCHANGED <<manager, watchdog, locking, suspended, now, ended_at, states, published>>
    /\ last' = [op |-> "claim_entry_key", ret |-> None, n |-> 0]

get_entry_key(code) ==
    /\ arg' = code
    /\ result' = IF code \in DOMAIN entryKeys THEN <<entryKeys[code]>> ELSE <<>>
    /\ UNCHANGED <<manager, watchdog, locking, suspended, store, now, ended_at>>
    /\ last' = [op |-> "get_entry_key", ret |-> None, n |-> 0]

NextEntryKeys ==
    \/ \E code \in Codes, serial \in Serials : create_entry_key(code, serial)
    \/ \E code \in Codes, user_id \in UserIds : claim_entry_key(code, user_id)
    \/ \E code \in Codes : get_entry_key(code)

SpecEntryKeys == Init /\ [][NextEntryKeys]_vars

\* ---------------------------------------------------------------- C26 ----
Claimed(table) == {code \in DOMAIN table : table[code].claimed_by # None}

NextRound ==
    \/ \E sid \in SessionIds : add_long_poll_subscription("AAA", sid, EmptyDict)
    \/ \E id \in 1..MaxUuid : remove_long_poll_subscription(id)
    \/ set_integration_manager
    \/ integration_throws
    \/ start
    \/ monitor_loop
    \/ check_devices
    \/ \E s \in Serials : mark_device_seen(s)
    \/ Advance(HeartbeatHorizon)

SpecRound == Init /\ [][NextRound]_vars

\* ---------------------------------------------------------------- C27 ----
\* what the devices and the events are after each serial of the list has been
\* evaluated, one after the other
RECURSIVE EvaluateAll(_, _, _)
EvaluateAll(st, serials, threshold) ==
    IF serials = <<>> THEN st
    ELSE EvaluateAll(CheckOne(st, Head(serials), threshold), Tail(serials), threshold)

TwoKeyObjects ==
    [object_key : {"device.AAA", "shared.AAA"}, object_revision : 1..MaxRev]
TwoKeyBatches ==
    {b \in SeqsUpTo(TwoKeyObjects, MaxFutureBatch) \ {<<>>} :
        \A i, j \in DOMAIN b : b[i].object_key = b[j].object_key => i = j}
TwoKeyWatched ==
    UNION {[K -> 1..MaxWatchedRev] : K \in SUBSET {"device.AAA", "shared.AAA"}}

NextFutures ==
    \/ \E s \in Serials, w \in TwoKeyWatched : add_subscription(s, w)
    \/ \E s \in Serials, id \in 1..MaxUuid : remove_subscription(s, id)
    \/ \E b \in TwoKeyBatches : notify_subscribers("AAA", b)

SpecFutures == Init /\ [][NextFutures]_vars

\* ---------------------------------------------------------------- C28 ----
\* C28: notify_subscribers(serial, batch) resolves the future of each
\* registered subscription of the serial that is not done and whose delta of
\* the batch is not empty, with exactly that delta in batch order, and takes
\* the subscription out of the registry in the same step; it touches no other
\* subscription; and a future that is done is never set again.
C28_FilteredDeltaOnce ==
    [][/\ \A id \in PendingIds :
             FutureDone(heap[id].future) => heap'[id].future = heap[id].future
       /\ \A s \in {"AAA"}, b \in TwoKeyBatches :
             (last'.op = "notify_subscribers" /\ notify_subscribers(s, b)) =>
                \A id \in PendingIds :
                   LET delta == Delta(heap[id].subscribed_keys, b)
                   IN  IF /\ id \in Get(subscriptions, s, {})
                          /\ delta # <<>>
                          /\ heap[id].future.state = "pending"
                       THEN /\ heap'[id].future = [state |-> "done", result |-> delta]
                            /\ id \notin LivePending'
                       ELSE /\ heap'[id] = heap[id]
                            /\ \A t \in Serials :
                                  id \in Get(subscriptions, t, {})
                                     <=> id \in Get(subscriptions', t, {})]_vars

\* a future was resolved with two objects of a batch while another subscriber
\* of the same serial, which watches neither, stays registered
C28_Witness ==
    /\ last.op = "notify_subscribers"
    /\ \E id \in PendingIds, other \in LivePending :
          /\ heap[id].future.state = "done"
          /\ Len(heap[id].future.result) = 2
          /\ heap[id].future.result[1] # heap[id].future.result[2]
          /\ heap[other].serial = heap[id].serial


\* ------------------------------------ start() and stop() that overlap ----
\* the names of the tasks asyncio.create_task returns, in the order of creation
LoopNames == <<"loop-1", "loop-2", "loop-3", "loop-4">>
LoopOf(name) == CHOOSE i \in DOMAIN LoopNames : LoopNames[i] = name

\* start() as any coroutine of the application may call it, also while a
\* stop() is suspended in `await self._task`
start_overlapping ==
    /\ IF running
       THEN UNCHANGED <<running, task, loops>>
       ELSE /\ Len(loops) < MaxLoops
            /\ running' = TRUE
            /\ loops' = Append(loops, "alive")
            /\ task' = LoopNames[Len(loops) + 1]
    /\ UNCHANGED <<manager, locking, pure, store, now, ended_at, devices,
                   integration_manager, todo, stale_threshold, wake_at, wall, events,
                   joining, awaiting>>
    /\ last' = [op |-> "start", ret |-> IF running THEN None ELSE task', n |-> 0]

\* `self._task = None` after `await self._task`
Forgets(awaited, current) == None

\* stop() up to `await self._task`: Task.cancel() does nothing to a task that
\* is done, and awaiting a task that is done does not suspend
stop_overlapping ==
    /\ running' = FALSE
    /\ IF task = None
       THEN UNCHANGED <<task, loops, joining>>
       ELSE LET i == LoopOf(task)
            IN  IF loops[i] = "done"
                THEN /\ task' = Forgets(task, task)
                     /\ UNCHANGED <<loops, joining>>
                ELSE /\ Len(joining) < MaxJoining
                     /\ loops' = [loops EXCEPT ![i] = "cancelled"]
                     /\ joining' = Append(joining, i)
                     /\ UNCHANGED task
    /\ UNCHANGED <<manager, locking, pure, store, now, ended_at, devices,
                   integration_manager, todo, stale_threshold, wake_at, wall, events,
                   awaiting>>
    /\ last' = [op |-> IF task # None /\ task' # None THEN "stop_cancel" ELSE "stop",
                ret |-> None, n |-> 0]

\* the k-th suspended stop() from the return of `await self._task` on
stop_resumed(k) ==
    /\ k \in DOMAIN joining
    /\ loops[joining[k]] = "done"
    /\ task' = Forgets(LoopNames[joining[k]], task)
    /\ joining' = [j \in 1..(Len(joining) - 1) |->
                      IF j < k THEN joining[j] ELSE joining[j + 1]]
    /\ UNCHANGED <<manager, locking, pure, store, now, ended_at, devices,
                   integration_manager, running, todo, stale_threshold, wake_at, wall,
                   events, loops, awaiting>>
    /\ last' = [op |-> "stop", ret |-> None, n |-> 1]

\* the i-th task: a cancelled one gets CancelledError at its await (or never
\* starts) and ends; another one is at `while self._running`, when it first
\* runs and each time its sleep returns
monitor_loop_of(i) ==
    /\ i \in DOMAIN loops
    /\ loops[i] # "done"
    /\ loops' = IF loops[i] = "cancelled" \/ ~running
                THEN [loops EXCEPT ![i] = "done"]
                ELSE loops
    /\ UNCHANGED <<manager, locking, pure, store, now, ended_at, devices,
                   integration_manager, running, task, todo, stale_threshold, wake_at,
                   wall, events, joining, awaiting>>
    /\ last' = [op |-> IF loops[i] = "cancelled" THEN "monitor_loop_cancelled"
                       ELSE "monitor_loop",
                ret |-> LoopNames[i], n |-> IF loops'[i] = "done" THEN 0 ELSE 1]

NextOverlap ==
    \/ start_overlapping
    \/ stop_overlapping
    \/ \E k \in 1..MaxJoining : stop_resumed(k)
    \/ \E i \in 1..MaxLoops : monitor_loop_of(i)

SpecOverlap == Init /\ [][NextOverlap]_vars

\* ---------------------------------------------------------------- C29 ----
\* the tasks whose loop still iterates: created, not cancelled, not ended
Iterating == {i \in DOMAIN loops : loops[i] = "alive"}

\* not counting a cancelled task that has yet to end, no two loops iterate
AtMostOneIterating == Cardinality(Iterating) <= 1
\* a loop that iterates is the task self._task refers to, the one stop() cancels
EveryLoopCancellable == \A i \in Iterating : task = LoopNames[i]
\* start() while self._running is set creates no task
StartOnRunningCreatesNone ==
    [][(last'.op = "start" /\ running) => loops' = loops /\ task' = task]_vars

\* C29: at most one monitor loop. Under any interleaving of start() and stop()
\* at most one monitor-loop task iterates at any time, and a start() issued
\* while a stop() waits for the old loop leaves no loop running that a later
\* stop() cannot cancel: the loop that runs is the one self._task refers to.
C29_AtMostOneMonitorLoop ==
    AtMostOneIterating /\ EveryLoopCancellable


\* ------------------------- mark_device_seen calls that overlap a round ----
\* mark_device_seen(serial) up to `await ...on_device_connected(serial)`, where
\* the call is suspended, or to its return when it has no event to send
mark_device_seen_call(serial) ==
    LET after == Seen([devices |-> devices, events |-> events], serial)
    IN  /\ after.events # events => awaiting[serial] < MaxAwaiting
        /\ devices' = after.devices
        /\ events' = after.events
        /\ awaiting' = IF after.events # events
                       THEN [awaiting EXCEPT ![serial] = @ + 1]
                       ELSE awaiting
        /\ UNCHANGED <<manager, locking, pure, store, now, ended_at, integration_manager,
                       running, task, todo, stale_threshold, wake_at, wall, loops,
                       joining>>
        /\ last' = [op |-> "mark_device_seen", ret |-> None,
                    n |-> Len(after.events[serial]) - Len(events[serial])]

\* on_device_connected(serial) returns to a suspended mark_device_seen, which
\* returns in turn
mark_device_seen_return(serial) ==
    /\ awaiting[serial] > 0
    /\ awaiting' = [awaiting EXCEPT ![serial] = @ - 1]
    /\ UNCHANGED <<manager, locking, pure, store, now, ended_at, devices,
                   integration_manager, running, task, todo, stale_threshold, wake_at,
                   wall, events, loops, joining>>
    /\ last' = [op |-> "mark_device_seen_return", ret |-> None, n |-> 0]

NextRace ==
    \/ set_integration_manager
    \/ start
    \/ monitor_loop
    \/ check_devices
    \/ \E s \in Serials : mark_device_seen_call(s)
    \/ \E s \in Serials : mark_device_seen_return(s)
    \/ Advance(WallHorizon)

SpecRace == Init /\ [][NextRace]_vars

\* ---------------------------------------------------------------- C30 ----
IsAvailable(devs, serial) == serial \in Tracked(devs) /\ StatusOf(devs, serial).is_available
\* the step takes the serial across an edge: it starts to be tracked, or its
\* is_available changes
Edge(serial) ==
    \/ serial \notin Tracked(devices) /\ serial \in Tracked(devices')
    \/ serial \in Tracked(devices)
       /\ StatusOf(devices, serial).is_available # StatusOf(devices', serial).is_available

\* C30: the connected edge is free of races. A call to the integration manager
\* is started in the very step that takes the serial across an edge and names
\* the value is_available has after it, so the calls are started in the order
\* of the changes and the last one started agrees with is_available; no edge
\* passes unreported while a manager is set; and a mark_device_seen that runs
\* while another one for the same serial is suspended in on_device_connected,
\* the device still being available, starts no second connected.
C30_RaceFreeConnectedEdge ==
    [][\A s \in Serials :
          /\ events'[s] # events[s] =>
                /\ Edge(s)
                /\ events'[s] = Append(events[s], IF IsAvailable(devices', s)
                                                  THEN "connected" ELSE "disconnected")
          /\ (Edge(s) /\ integration_manager # None) => events'[s] # events[s]
          /\ (last'.op = "mark_device_seen" /\ awaiting[s] > 0 /\ IsAvailable(devices, s)) =>
                events'[s] = events[s]]_vars

\* C30 witness: a round that marked the device unavailable is suspended in
\* on_device_disconnected, the mark_device_seen that reconnected the device is
\* suspended in on_device_connected together with the one that first reported
\* it, and a further mark_device_seen has just run and sent nothing.
C30_Witness ==
    /\ last = [op |-> "mark_device_seen", ret |-> None, n |-> 0]
    /\ Tracked(devices) = {"AAA"}
    /\ task = "checking"
    /\ awaiting["AAA"] = 2
    /\ events["AAA"] = <<"connected", "disconnected", "connected">>
    /\ IsAvailable(devices, "AAA")


\* ------------------------------------------- a check round that fails ----
\* `except Exception as e:` in _monitor_loop: the error is logged and the loop
\* goes on to `await asyncio.sleep(self._check_interval)`
OnExceptionEnds(t) == "done"
OnException(t) == "sleeping"

\* the call _check_devices is suspended in raises an exception other than
\* CancelledError: it leaves _check_devices, whose locals are dropped, and
\* reaches the handler of _monitor_loop
check_devices_raises ==
    /\ task = "checking"
    /\ task' = OnException(task)
    /\ todo' = <<>> /\ stale_threshold' = 0
    /\ wake_at' = IF task' = "sleeping" THEN wall + check_interval_seconds ELSE 0
    /\ UNCHANGED <<manager, locking, suspended, pure, store, now, ended_at, devices,
                   integration_manager, running, wall, events>>
    /\ last' = [op |-> "check_devices", ret |-> "Exception", n |-> 0]

NextFailure ==
    \/ set_integration_manager
    \/ start
    \/ stop
    \/ monitor_loop_cancelled
    \/ stop_return
    \/ monitor_loop
    \/ check_devices
    \/ check_devices_raises
    \/ \E s \in Serials : mark_device_seen(s)
    \/ Advance(WallHorizon)

SpecFailure == Init /\ [][NextFailure]_vars

\* ---------------------------------------------------------------- C31 ----
Raised == last'.op = "check_devices" /\ last'.ret = "Exception"

\* C31: the monitor loop survives failures. An exception other than a
\* cancellation that is raised during a check round leaves the task alive and
\* _running as it was, and the loop sleeps for one check interval; a sleeping
\* loop runs its next round when the interval is over and not before; and a
\* stop() issued while the loop sleeps cancels it, the cancelled task can end
\* and the stop() that awaits it can return.
C31_LoopSurvivesFailure ==
    /\ [][/\ Raised =>
                /\ task' = "sleeping"
                /\ wake_at' = wall + check_interval_seconds
                /\ running' = running
                /\ devices' = devices /\ events' = events
          /\ (last'.op = "monitor_loop" /\ task = "sleeping") =>
                /\ wall >= wake_at
                /\ running => InRound
          /\ (last'.op \in {"stop", "stop_cancel"} /\ task = "sleeping") =>
                task' = "cancelling" /\ ~running']_vars
    /\ [](/\ (task = "sleeping" /\ wall >= wake_at) => ENABLED monitor_loop
          /\ task = "sleeping" => ENABLED stop
          /\ task = "cancelling" => ENABLED monitor_loop_cancelled
          /\ task = "done" => ENABLED stop_return)

\* C31 witness: the round that marked the first device unavailable failed in
\* on_device_disconnected and never reached the second device, which had timed
\* out as well; the loop is asleep until the next round.
C31_Witness ==
    /\ last = [op |-> "check_devices", ret |-> "Exception", n |-> 0]
    /\ task = "sleeping" /\ running
    /\ wake_at = wall + check_interval_seconds
    /\ devices = <<[serial |-> "AAA", last_seen |-> 0, is_available |-> FALSE],
                   [serial |-> "BBB", last_seen |-> 0, is_available |-> TRUE]>>
    /\ events = [s \in Serials |-> IF s = "AAA" THEN <<"disconnected">> ELSE <<>>]


\* ---------------------------------------------------------------- C32 ----
RECURSIVE SumCounts(_)
SumCounts(serials) ==
    IF serials = {} THEN 0
    ELSE LET serial == CHOOSE x \in serials : TRUE
         IN  get_subscription_count(serial) + SumCounts(serials \ {serial})

NoEmptyTable(registry) == \A serial \in DOMAIN registry : registry[serial] # {}

\* C32: the shape of the registries. Neither registry holds a serial that maps
\* to an empty table; for every serial has_active_subscription is true exactly
\* when get_subscription_count is positive; get_total_subscription_count is the
\* sum of get_subscription_count over the serials; and get_stats reports a
\* total that is the sum of its future and long-poll counts and a number of
\* devices that is the number of serials with at least one live subscription.
C32_RegistryShape ==
    /\ NoEmptyTable(subscriptions)
    /\ NoEmptyTable(long_poll_subscriptions)
    /\ \A serial \in Serials :
          has_active_subscription(serial) <=> get_subscription_count(serial) > 0
    /\ get_total_subscription_count = SumCounts(Serials)
    /\ get_stats.total_subscriptions =
          get_stats.future_subscriptions + get_stats.long_poll_subscriptions
    /\ get_stats.devices_with_subscriptions =
          Cardinality({serial \in Serials : get_subscription_count(serial) > 0})

\* C32 witness: a serial held one subscription of each kind and lost both, the
\* long-poll one by removal and the future one by delivery, while the other
\* serial still holds a long-poll subscription.
C32_Witness ==
    /\ last.op = "notify_subscribers" /\ last.n = 1
    /\ DOMAIN subscriptions = {}
    /\ DOMAIN long_poll_subscriptions = {"BBB"}
    /\ "AAA" \in DOMAIN last_subscription_end
    /\ \E id \in Uuids : heap[id].kind = "future" /\ heap[id].serial = "AAA"


\* ------------------------- both kinds of subscription under the clock ----
NextFrame ==
    \/ \E s \in Serials, sid \in SessionIds : add_long_poll_subscription(s, sid, Watched)
    \/ \E id \in 1..MaxUuid : remove_long_poll_subscription(id)
    \/ \E s \in Serials : notify_long_poll_subscribers(s, Changed)
    \/ \E s \in Serials : add_subscription(s, Watched)
    \/ \E s \in Serials, id \in 1..MaxUuid : remove_subscription(s, id)
    \/ \E s \in Serials : notify_subscribers(s, Changed)
    \/ Tick(FrameHorizon)

SpecFrame == Init /\ [][NextFrame]_vars

\* ---------------------------------------------------------------- C33 ----
\* the step changes the last-ended record of the serial
LastEndChanges(serial) ==
    \/ (serial \in DOMAIN last_subscription_end') # (serial \in DOMAIN last_subscription_end)
    \/ /\ serial \in DOMAIN last_subscription_end
       /\ serial \in DOMAIN last_subscription_end'
       /\ last_subscription_end'[serial] # last_subscription_end[serial]

\* C33: the frame of the last-ended record. The record of a serial changes only
\* in a step of remove_long_poll_subscription that takes a live long-poll
\* subscription of that serial out of the registry, and it becomes the time of
\* that step; a registration, accepted or rejected, a notify of either kind, a
\* removal that removes nothing and every add, remove and delivery of a
\* future-based subscription leave the records of all serials as they were.
C33_LastEndFrame ==
    [][/\ \A s \in Serials :
             LastEndChanges(s) =>
                /\ last'.op = "remove_long_poll_subscription"
                /\ \E id \in Get(long_poll_subscriptions, s, {}) :
                      /\ id \in DOMAIN ended_at' /\ id \notin DOMAIN ended_at
                      /\ LiveLongPoll' = LiveLongPoll \ {id}
                /\ last_subscription_end'[s] = now
       /\ (\/ last'.op # "remove_long_poll_subscription"
           \/ LiveLongPoll' = LiveLongPoll) =>
             last_subscription_end' = last_subscription_end]_vars

\* C33 witness: the records of the two serials differ, the later one written by
\* the removal that has just run, after a future-based subscription of the
\* other serial was resolved.
C33_Witness ==
    /\ last.op = "remove_long_poll_subscription"
    /\ DOMAIN last_subscription_end = Serials
    /\ last_subscription_end["AAA"] = now
    /\ last_subscription_end["BBB"] < now
    /\ \E id \in Uuids :
          /\ heap[id].kind = "future" /\ heap[id].serial = "BBB"
          /\ heap[id].future.state = "done"


\* ---------------------------------------------------------------- C34 ----
\* C34: remove_subscription(serial, session_id) on a subscription registered
\* under that serial takes it, and nothing else, out of the registry and
\* cancels its future if the future is pending; for a serial or a session id
\* the registry does not hold it changes nothing; and a future that a notify
\* has resolved keeps its result whatever is called afterwards.
C34_RemoveCancelsPending ==
    [][/\ \A s \in Serials, id \in 1..MaxUuid :
             (last'.op = "remove_subscription" /\ remove_subscription(s, id)) =>
                IF id \in Get(subscriptions, s, {})
                THEN /\ LivePending' = LivePending \ {id}
                     /\ Get(subscriptions', s, {}) = subscriptions[s] \ {id}
                     /\ heap'[id].future =
                           IF heap[id].future.state = "pending"
                           THEN [state |-> "cancelled", result |-> <<>>]
                           ELSE heap[id].future
                     /\ \A other \in Uuids \ {id} : heap'[other] = heap[other]
                ELSE UNCHANGED manager
       /\ \A id \in PendingIds :
             heap[id].future.state = "done" =>
                /\ heap'[id].future = heap[id].future
                /\ heap[id].future.result # <<>>]_vars

\* C34 witness: of two subscriptions of one serial the first was resolved by a
\* notify and the second has just been removed and cancelled.
C34_Witness ==
    /\ last.op = "remove_subscription"
    /\ LivePending = {}
    /\ \E done, gone \in PendingIds :
          /\ heap[done].serial = "AAA" /\ heap[gone].serial = "AAA"
          /\ heap[done].future.state = "done"
          /\ heap[gone].future = [state |-> "cancelled", result |-> <<>>]


\* ----------------------------- devices loaded from storage at any time ----
\* the lists initialize_from_serials is called with, a serial twice included
SerialLists == SeqsUpTo(Serials, MaxSerialList)

NextInitialize ==
    \/ set_integration_manager
    \/ \E serials \in SerialLists : initialize_from_serials(serials)
    \/ start
    \/ monitor_loop
    \/ check_devices
    \/ \E s \in Serials : mark_device_seen(s)
    \/ Advance(HeartbeatHorizon)

SpecInitialize == Init /\ [][NextInitialize]_vars

\* ---------------------------------------------------------------- C35 ----
Listed(serials) == {serials[i] : i \in DOMAIN serials}

\* C35: initialize_from_serials preserves its frame. Each listed serial that is
\* not tracked becomes tracked, once, as available and last seen now; the
\* status of every serial that is tracked stays as it is; no connected and no
\* disconnected is sent; and a second call with the same list changes nothing,
\* at the same time or later.
C35_InitializeFrame ==
    [][\A serials \in SerialLists :
          (last'.op = "initialize_from_serials" /\ initialize_from_serials(serials)) =>
             /\ Tracked(devices') = Tracked(devices) \cup Listed(serials)
             /\ Len(devices') = Cardinality(Tracked(devices'))
             /\ \A s \in Tracked(devices) : StatusOf(devices', s) = StatusOf(devices, s)
             /\ \A s \in Listed(serials) \ Tracked(devices) :
                   StatusOf(devices', s) =
                      [serial |-> s, last_seen |-> wall, is_available |-> TRUE]
             /\ events' = events
             /\ InitializeFrom(devices', serials) = devices'
             /\ Listed(serials) \subseteq Tracked(devices) => devices' = devices]_vars

\* C35 witness: the list named a device that had timed out earlier and one that
\* was unknown; the first is still unavailable with its old last_seen, the
\* second is tracked from now on.
C35_Witness ==
    /\ last.op = "initialize_from_serials"
    /\ wall > 0
    /\ devices = <<[serial |-> "AAA", last_seen |-> 0, is_available |-> FALSE],
                   [serial |-> "BBB", last_seen |-> wall, is_available |-> TRUE]>>
    /\ events = [s \in Serials |-> IF s = "AAA" THEN <<"connected", "disconnected">>
                                   ELSE <<>>]


\* ====================================================== MQTT topics ====
\* A string is the sequence of its pieces: "x" is a letter, "set" the word set,
\* "/" the separator and "\n" a line feed.
Pieces == {"x", "set", "/", "\n"}
Strings(n) == UNION {[1..k -> Pieces] : k \in 0..n}
StartsWith(str, head) ==
    Len(str) >= Len(head) /\ SubSeq(str, 1, Len(head)) = head
EndsWith(str, tail) ==
    Len(str) >= Len(tail) /\ SubSeq(str, Len(str) - Len(tail) + 1, Len(str)) = tail

\* f"{prefix}/{serial}/{object_type}/{field}/set"
build_command_topic(prefix, serial, object_type, field) ==
    prefix \o <<"/">> \o serial \o <<"/">> \o object_type \o <<"/">> \o field
           \o <<"/", "set">>

\* str.split("/")
RECURSIVE Split(_)
Split(str) ==
    IF \A i \in DOMAIN str : str[i] # "/"
    THEN <<str>>
    ELSE LET i == CHOOSE k \in DOMAIN str :
                     str[k] = "/" /\ \A j \in 1..(k - 1) : str[j] # "/"
         IN  <<SubSeq(str, 1, i - 1)>> \o Split(SubSeq(str, i + 1, Len(str)))

\* `$` of a pattern compiled without re.MULTILINE: the end of the string, or
\* the place before a line feed that is the last character
DollarAtEndOnly(str) == str
Dollar(str) ==
    IF str # <<>> /\ str[Len(str)] = "\n" THEN SubSeq(str, 1, Len(str) - 1) ELSE str

\* re.match(rf"^{re.escape(prefix)}/([^/]+)/([^/]+)/([^/]+)/set$", topic): the
\* three groups, or no match (the empty tuple). `[^/]` matches a line feed.
parse_command_topic(prefix, topic) ==
    LET matched == Dollar(topic)
        head == prefix \o <<"/">>
    IN  IF ~StartsWith(matched, head)
        THEN <<>>
        ELSE LET parts == Split(SubSeq(matched, Len(head) + 1, Len(matched)))
             IN  IF /\ Len(parts) = 4
                    /\ parts[4] = <<"set">>
                    /\ \A i \in 1..3 : parts[i] # <<>>
                 THEN <<parts[1], parts[2], parts[3]>>
                 ELSE <<>>

\* the arguments the functions are called with
Prefixes == {<<>>, <<"x">>}
Segments == {str \in Strings(MaxSegmentLen) : str # <<>> /\ \A i \in DOMAIN str : str[i] # "/"}
BuildArguments ==
    [prefix : Prefixes \cup {<<"x", "/", "x">>}, serial : Segments,
     object_type : Segments, field : Segments]
ParseArguments == [prefix : Prefixes, topic : Strings(MaxTopicLen)]

build_topic ==
    /\ last.op = "init"
    /\ arg \in BuildArguments
    /\ result' = <<build_command_topic(arg.prefix, arg.serial, arg.object_type, arg.field)>>
    /\ UNCHANGED <<manager, watchdog, locking, suspended, store, now, ended_at, arg>>
    /\ last' = [op |-> "build_command_topic", ret |-> "topic", n |-> 0]

\* parse_command_topic on the topic that was built, or on the topic given
parse_topic ==
    /\ \/ last.op = "build_command_topic"
       \/ last.op = "init" /\ arg \in ParseArguments
    /\ LET topic == IF last.op = "init" THEN arg.topic ELSE result[1]
           parsed == parse_command_topic(arg.prefix, topic)
       IN  /\ result' = <<topic, parsed>>
           /\ last' = [op |-> "parse_command_topic",
                       ret |-> IF parsed = <<>> THEN None ELSE "tuple", n |-> 0]
    /\ UNCHANGED <<manager, watchdog, locking, suspended, store, now, ended_at, arg>>

InitTopic ==
    /\ Constructed
    /\ arg \in BuildArguments \cup ParseArguments
    /\ result = <<>>

NextTopic == build_topic \/ parse_topic

SpecTopic == InitTopic /\ [][NextTopic]_vars

\* ---------------------------------------------------------------- C36 ----
Parsed == last.op = "parse_command_topic"
\* the topic has the prefix, then "/", then exactly three segments, then "/set"
ThreeSegments(prefix, topic) ==
    /\ StartsWith(topic, prefix \o <<"/">>)
    /\ EndsWith(topic, <<"/", "set">>)
    /\ Len(topic) >= Len(prefix) + 3
    /\ Len(Split(SubSeq(topic, Len(prefix) + 2, Len(topic) - 2))) = 3

\* a topic that was built is parsed into the serial, the object type and the
\* field it was built from
RoundTrip ==
    (Parsed /\ arg \in BuildArguments) =>
       result[2] = <<arg.serial, arg.object_type, arg.field>>

\* C36: the command topic round trip. For every prefix and every non-empty
\* serial, object type and field without "/", parsing the topic built from
\* them returns the three of them; and parse_command_topic returns None for
\* every topic that does not start with the prefix, does not end in /set or
\* does not have exactly three segments in between.
C36_CommandTopicRoundTrip ==
    /\ RoundTrip
    /\ (Parsed /\ arg \in ParseArguments /\ ~ThreeSegments(arg.prefix, arg.topic)) =>
          result[2] = <<>>

====
